---- MODULE Spec2Model ----
(***************************************************************************)
(* Permission snapshot and change-detection pipeline of simplyinspect:     *)
(* the baseline manager (services/baseline_service.py), the diff engine    *)
(* (_compare_permissions), the change ledger                               *)
(* (services/change_detection_service.py), the notification dispatcher     *)
(* (services/notification_service.py) and the SharePoint collector         *)
(* (routes/sharepoint_routes.py).                                          *)
(*                                                                         *)
(* The specifications share the definitions below:                         *)
(*   SpecDiff     - the diff engine and _record_changes as functions of a  *)
(*                  baseline payload and a list of current rows;           *)
(*   Spec         - the baseline table, the snapshot rows, detection and   *)
(*                  the review of the ledger;                              *)
(*   SpecLedger   - the ledger under detection and review;                 *)
(*   SpecNotify   - the notification queue and its dispatch runs;          *)
(*   SpecNotifyLive - SpecNotify under the scheduling of the dispatcher;   *)
(*   SpecDetect   - one detection call with notification, up to delivery;  *)
(*   SpecFrame    - a captured baseline under every later operation;       *)
(*   SpecCrawl    - the structure pass, the permission pass and            *)
(*                  refresh_site_data, run again against one upstream;     *)
(*   SpecClassify - the principal columns stored for one grantee;          *)
(*   SpecStats    - the statistics of a baseline captured from the rows of *)
(*                  the permission pass;                                   *)
(*   SpecBatch    - one permission pass over more resources than a batch   *)
(*                  holds, with its progress record;                       *)
(*   SpecTree     - the structure pass over a tree of nested folders.      *)
(***************************************************************************)
EXTENDS Integers, Sequences, FiniteSets, TLC

VARIABLES
    baseline_perms,       \* SpecDiff: first argument of _compare_permissions
    current_perms,        \* SpecDiff: second argument of _compare_permissions
    comparison,           \* SpecDiff: the dict _compare_permissions returned
    permission_changes,   \* table permission_changes, row id = index
    insert_failed,        \* SpecDiff: the inserts of the last _record_changes that raised
    diff_pc,              \* SpecDiff: "input", "compared" or "recorded"
    sharepoint_permissions, \* table sharepoint_permissions: what each key holds
    permission_baselines, \* table permission_baselines, row id = index
    last_op,              \* the last call of the baseline manager or the ledger and how it ended
    now,                  \* CURRENT_TIMESTAMP, in minutes
    notification_queue,   \* table notification_queue, row id = index
    runs,                 \* SpecNotify: the runs of send_pending_notifications
    smtp_configured,      \* NotificationService.smtp_configured
    delivered,            \* SpecNotify: per job, the messages the transport accepted
    notification_recipients, \* table notification_recipients
    detection,            \* SpecDetect: the running detect_changes_for_site / detect_all_sites
    graph,                \* SpecCrawl: what the Graph API holds for each resource
    crawl,                \* SpecCrawl: the running collection pass and its counters
    classify              \* SpecClassify: a grantee and the principal columns stored for it

baselineVars == <<sharepoint_permissions, permission_baselines, last_op>>

notifyVars == <<notification_queue, runs, smtp_configured, delivered>>

pipelineVars == <<notification_recipients, detection>>

crawlVars == <<graph, crawl, classify>>

diffVars == <<baseline_perms, current_perms, comparison, insert_failed, diff_pc>>

(***************************************************************************)
(* Values                                                                  *)
(***************************************************************************)

\* Python None / SQL NULL in a text column (an f-string prints it as "None").
None == "None"

\* A dict argument that is None: falsy, as the empty dict is.
NoDict == <<>>

\* SQL NULL in a timestamp column.
NoTime == 0 - 1

Sites == {"S1", "S2"}

Levels == {"Read", "Edit"}

\* d.get(f): the value, or None when the key is missing.
Get(d, f) == IF f \in DOMAIN d THEN d[f] ELSE None

\* Python truthiness of an Optional[Dict]: None and {} are false.
Truthy(d) == DOMAIN d # {}

(***************************************************************************)
(* Diff engine: BaselineService._compare_permissions                       *)
(***************************************************************************)

\* A plausible slip: the key leaves the principal out.
make_key_resource_only(perm) == perm.resource_id \o "|"

\* make_key: f"{resource_id}|{principal_id}"
make_key(perm) == perm.resource_id \o "|" \o perm.principal_id

\* {make_key(p): p for p in perms}: a later element replaces an earlier one.
PermDict(perms) ==
    [k \in {make_key(perms[i]) : i \in DOMAIN perms} |->
        LET last == CHOOSE i \in DOMAIN perms :
                        /\ make_key(perms[i]) = k
                        /\ \A j \in DOMAIN perms : make_key(perms[j]) = k => j <= i
        IN perms[last]]

\* The order in which Python iterates a set is not fixed by the code; the
\* lists are built in one fixed order of the keys.
RECURSIVE SetToSeq(_)
SetToSeq(S) ==
    IF S = {} THEN <<>>
    ELSE LET x == CHOOSE y \in S : TRUE IN <<x>> \o SetToSeq(S \ {x})

\* A plausible slip: only the permission level is compared.
IsModified_level_only(baseline_perm, current_perm) ==
    baseline_perm.permission_level # current_perm.permission_level

\* The condition of the loop over common_keys.
IsModified(baseline_perm, current_perm) ==
    \/ baseline_perm.permission_level # current_perm.permission_level
    \/ baseline_perm.has_broken_inheritance # current_perm.has_broken_inheritance

\* The dict appended to `modified`.
ModifiedItem(baseline_perm, current_perm) ==
    [resource_id          |-> current_perm.resource_id,
     resource_name        |-> current_perm.resource_name,
     principal_id         |-> current_perm.principal_id,
     principal_name       |-> current_perm.principal_name,
     old_permission_level |-> baseline_perm.permission_level,
     new_permission_level |-> current_perm.permission_level,
     old_inheritance      |-> baseline_perm.has_broken_inheritance,
     new_inheritance      |-> current_perm.has_broken_inheritance]

\* A plausible slip: unchanged_count forgets to take the modified pairs out.
UnchangedCount_all_common(common_keys, modified) == Cardinality(common_keys)

\* "unchanged_count": len(common_keys) - len(modified)
UnchangedCount(common_keys, modified) == Cardinality(common_keys) - Len(modified)

\* A plausible slip: the subtraction is left out.
KeysOnlyIn_no_subtraction(keys, other_keys) == keys

\* added_keys = current_keys - baseline_keys, removed_keys the other way round.
KeysOnlyIn(keys, other_keys) == keys \ other_keys

_compare_permissions(b_perms, c_perms) ==
    LET baseline_dict == PermDict(b_perms)
        current_dict  == PermDict(c_perms)
        baseline_keys == DOMAIN baseline_dict
        current_keys  == DOMAIN current_dict
        added_keys    == KeysOnlyIn(current_keys, baseline_keys)
        removed_keys  == KeysOnlyIn(baseline_keys, current_keys)
        common_keys   == baseline_keys \cap current_keys
        added_order   == SetToSeq(added_keys)
        removed_order == SetToSeq(removed_keys)
        modified_order ==
            SetToSeq({k \in common_keys : IsModified(baseline_dict[k], current_dict[k])})
        added    == [i \in DOMAIN added_order |-> current_dict[added_order[i]]]
        removed  == [i \in DOMAIN removed_order |-> baseline_dict[removed_order[i]]]
        modified == [i \in DOMAIN modified_order |->
                        ModifiedItem(baseline_dict[modified_order[i]],
                                     current_dict[modified_order[i]])]
    IN [summary |->
            [total_baseline  |-> Len(b_perms),
             total_current   |-> Len(c_perms),
             added_count     |-> Len(added),
             removed_count   |-> Len(removed),
             modified_count  |-> Len(modified),
             unchanged_count |-> UnchangedCount(common_keys, modified)],
        added_permissions    |-> added,
        removed_permissions  |-> removed,
        modified_permissions |-> modified]

(***************************************************************************)
(* Change ledger: ChangeDetectionService._record_changes                   *)
(***************************************************************************)

\* A plausible slip: the refinement is left out.
ChangeTypeOf_never_refined(mod) == "modified"

\* The refinement as the specification words it: only when the flag is the
\* only difference.
ChangeTypeOf_only_difference(mod) ==
    IF /\ mod.old_inheritance # mod.new_inheritance
       /\ mod.old_permission_level = mod.new_permission_level
    THEN IF mod.new_inheritance THEN "inheritance_broken" ELSE "inheritance_restored"
    ELSE "modified"

\* change_type of a modified item (the nested ifs of the third loop).
ChangeTypeOf(mod) ==
    IF mod.old_inheritance # mod.new_inheritance
    THEN IF mod.new_inheritance THEN "inheritance_broken" ELSE "inheritance_restored"
    ELSE "modified"

\* _insert_change_record: the row handed to INSERT INTO permission_changes.
\* The identifying columns come from new_permission when it is truthy, else
\* from old_permission when that is truthy, else from the keyword arguments.
\* The columns the INSERT does not list take their defaults.
_insert_change_record(baseline_id, site_id, change_type, old_permission, new_permission, kwargs) ==
    LET src == IF Truthy(new_permission) THEN new_permission
               ELSE IF Truthy(old_permission) THEN old_permission
               ELSE kwargs
    IN [baseline_id       |-> baseline_id,
        site_id           |-> site_id,
        change_type       |-> change_type,
        resource_id       |-> Get(src, "resource_id"),
        principal_id      |-> Get(src, "principal_id"),
        old_permission    |-> IF Truthy(old_permission) THEN old_permission ELSE NoDict,
        new_permission    |-> IF Truthy(new_permission) THEN new_permission ELSE NoDict,
        reviewed          |-> FALSE,
        reviewed_by       |-> None,
        reviewed_at       |-> NoTime,
        review_notes      |-> None,
        notification_sent |-> FALSE]

\* The INSERTs _record_changes issues, in order: added, removed, modified.
_record_changes(baseline_id, site_id, changes) ==
    LET added    == changes.added_permissions
        removed  == changes.removed_permissions
        modified == changes.modified_permissions
    IN [i \in DOMAIN added |->
            _insert_change_record(baseline_id, site_id, "added", NoDict, added[i], NoDict)]
       \o
       [i \in DOMAIN removed |->
            _insert_change_record(baseline_id, site_id, "removed", removed[i], NoDict, NoDict)]
       \o
       [i \in DOMAIN modified |->
            _insert_change_record(
                baseline_id, site_id, ChangeTypeOf(modified[i]),
                [permission_level       |-> modified[i].old_permission_level,
                 has_broken_inheritance |-> modified[i].old_inheritance],
                [permission_level       |-> modified[i].new_permission_level,
                 has_broken_inheritance |-> modified[i].new_inheritance],
                [resource_id    |-> modified[i].resource_id,
                 resource_name  |-> modified[i].resource_name,
                 principal_id   |-> modified[i].principal_id,
                 principal_name |-> modified[i].principal_name])]

\* The rows that reach the table: an INSERT that raises is logged and skipped.
RECURSIVE Surviving(_, _, _)
Surviving(rows, failed, i) ==
    IF i > Len(rows) THEN <<>>
    ELSE (IF i \in failed THEN <<>> ELSE <<rows[i]>>) \o Surviving(rows, failed, i + 1)

(***************************************************************************)
(* SpecDiff: inputs of the diff engine                                     *)
(***************************************************************************)

\* The (resource_id, principal_id) pairs of the inputs, in the order of
\* ORDER BY resource_id, principal_id.
DiffKeys ==
    << [resource_id |-> "R1", principal_id |-> "P1"],
       [resource_id |-> "R1", principal_id |-> "P2"],
       [resource_id |-> "R2", principal_id |-> "P1"] >>

Absent == [absent |-> TRUE]

\* What a key can hold in a snapshot: no row, or a level and an inheritance flag.
RowChoices ==
    {Absent} \cup [permission_level : Levels, has_broken_inheritance : BOOLEAN]

PermRow(site, key, choice, name) ==
    [site_id                |-> site,
     resource_id            |-> key.resource_id,
     resource_name          |-> "N-" \o key.resource_id,
     principal_id           |-> key.principal_id,
     principal_name         |-> name,
     permission_level       |-> choice.permission_level,
     has_broken_inheritance |-> choice.has_broken_inheritance]

\* The rows of a snapshot as the SELECT returns them.
RECURSIVE SnapshotRows(_, _, _, _, _)
SnapshotRows(site, keys, choice, name, i) ==
    IF i > Len(keys) THEN <<>>
    ELSE (IF choice[i] = Absent THEN <<>>
          ELSE <<PermRow(site, keys[i], choice[i], name)>>)
         \o SnapshotRows(site, keys, choice, name, i + 1)

(***************************************************************************)
(* Snapshot rows and baseline table (Spec)                                 *)
(***************************************************************************)

\* The (site_id, resource_id, principal_id) keys of sharepoint_permissions, in
\* the order of ORDER BY resource_id, principal_id.
StoreKeys ==
    << [site_id |-> "S1", resource_id |-> "R1", principal_id |-> "P1"],
       [site_id |-> "S2", resource_id |-> "R2", principal_id |-> "P1"] >>

\* What the collector can leave under a key.
StoreChoices(k) ==
    IF StoreKeys[k].site_id = "S1"
    THEN {Absent,
          [permission_level |-> "Read", has_broken_inheritance |-> FALSE],
          [permission_level |-> "Edit", has_broken_inheritance |-> TRUE]}
    ELSE {Absent,
          [permission_level |-> "Read", has_broken_inheritance |-> FALSE]}

RECURSIVE SiteRowsFrom(_, _, _)
SiteRowsFrom(store, site, i) ==
    IF i > Len(StoreKeys) THEN <<>>
    ELSE (IF StoreKeys[i].site_id = site /\ store[i] # Absent
          THEN <<PermRow(site, StoreKeys[i], store[i], "Ann")>>
          ELSE <<>>)
         \o SiteRowsFrom(store, site, i + 1)

\* SELECT ... FROM sharepoint_permissions WHERE site_id = $1 ORDER BY ...
SiteRows(store, site) == SiteRowsFrom(store, site, 1)

\* A deleted row of permission_baselines: ids are serial and not reused.
Deleted == [deleted |-> TRUE]

LiveBaselines(bs) == {i \in DOMAIN bs : bs[i] # Deleted}

\* The ids of the active baselines of a site.
ActiveOf(bs, site) ==
    {i \in LiveBaselines(bs) : bs[i].site_id = site /\ bs[i].is_active}

\* The trigger without its effect.
Trigger_single_active_missing(bs, id) == bs

\* The trigger on permission_baselines that create_baseline and
\* activate_baseline rely on ("The trigger will handle deactivating other
\* baselines"): when the written row is active, every other baseline of its
\* site is deactivated in the same statement.
Trigger_single_active(bs, id) ==
    IF bs[id].is_active
    THEN [i \in DOMAIN bs |->
            IF i # id /\ bs[i] # Deleted /\ bs[i].site_id = bs[id].site_id
            THEN [bs[i] EXCEPT !.is_active = FALSE]
            ELSE bs[i]]
    ELSE bs

\* A plausible slip: the test for an empty result is lost.
NoPermissions_never(permissions) == FALSE

\* if not permissions
NoPermissions(permissions) == permissions = <<>>

\* The row INSERT INTO permission_baselines writes; baseline_data is the JSON
\* text of the rows, which json.loads gives back as the same list of dicts
\* (every selected column is text, boolean or NULL).
NewBaseline(site, permissions, set_as_active) ==
    [site_id       |-> site,
     is_active     |-> set_as_active,
     baseline_data |-> [site_id |-> site,
                        total_permissions |-> Len(permissions),
                        permissions |-> permissions]]

\* A plausible slip: the UPDATE also resets the payload.
SetIsActive_clearing_payload(bs, id, value) ==
    [bs EXCEPT ![id].is_active = value, ![id].baseline_data.permissions = <<>>]

\* A plausible slip: the statement of deactivate_baseline copied unchanged.
SetIsActive_always_false(bs, id, value) == [bs EXCEPT ![id].is_active = FALSE]

\* UPDATE permission_baselines SET is_active = <value> WHERE id = $1
SetIsActive(bs, id, value) == [bs EXCEPT ![id].is_active = value]

MaxBaselines == 3

BaselineIdle ==
    /\ sharepoint_permissions = [k \in DOMAIN StoreKeys |-> Absent]
    /\ permission_baselines = <<>>
    /\ last_op = [op |-> "none"]

\* The collector writes a key of the snapshot: an upsert on
\* (resource_id, principal_id), or the delete of the row.
CollectRow(k, choice) ==
    /\ sharepoint_permissions[k] # choice
    /\ sharepoint_permissions' = [sharepoint_permissions EXCEPT ![k] = choice]
    /\ last_op' = [op |-> "collect"]
    /\ UNCHANGED permission_baselines

create_baseline(site, set_as_active) ==
    LET permissions == SiteRows(sharepoint_permissions, site)
        id == Len(permission_baselines) + 1
    IN /\ Len(permission_baselines) < MaxBaselines
       /\ IF NoPermissions(permissions)
          THEN /\ last_op' = [op |-> "create_baseline", site_id |-> site,
                              set_as_active |-> set_as_active, result |-> "ValueError"]
               /\ UNCHANGED permission_baselines
          ELSE /\ permission_baselines' =
                    Trigger_single_active(
                        Append(permission_baselines,
                               NewBaseline(site, permissions, set_as_active)), id)
               /\ last_op' = [op |-> "create_baseline", site_id |-> site,
                              set_as_active |-> set_as_active, result |-> "ok", id |-> id,
                              prior_active |-> ActiveOf(permission_baselines, site)]
       /\ UNCHANGED sharepoint_permissions

activate_baseline(id) ==
    /\ IF id \in LiveBaselines(permission_baselines)
       THEN /\ permission_baselines' =
                 Trigger_single_active(SetIsActive(permission_baselines, id, TRUE), id)
            /\ last_op' = [op |-> "activate_baseline", id |-> id, result |-> "ok",
                           prior_active |->
                               ActiveOf(permission_baselines, permission_baselines[id].site_id)]
       ELSE /\ last_op' = [op |-> "activate_baseline", id |-> id, result |-> "ValueError"]
            /\ UNCHANGED permission_baselines
    /\ UNCHANGED sharepoint_permissions

deactivate_baseline(id) ==
    /\ IF id \in LiveBaselines(permission_baselines)
       THEN /\ permission_baselines' =
                 Trigger_single_active(SetIsActive(permission_baselines, id, FALSE), id)
            /\ last_op' = [op |-> "deactivate_baseline", id |-> id, result |-> "ok"]
       ELSE /\ last_op' = [op |-> "deactivate_baseline", id |-> id, result |-> "ValueError"]
            /\ UNCHANGED permission_baselines
    /\ UNCHANGED sharepoint_permissions

delete_baseline(id) ==
    /\ IF id \in LiveBaselines(permission_baselines)
       THEN /\ permission_baselines' = [permission_baselines EXCEPT ![id] = Deleted]
            /\ last_op' = [op |-> "delete_baseline", id |-> id, result |-> "ok"]
       ELSE /\ last_op' = [op |-> "delete_baseline", id |-> id, result |-> "ValueError"]
            /\ UNCHANGED permission_baselines
    /\ UNCHANGED sharepoint_permissions

\* The callers of send_pending_notifications: the scheduler's
\* process_notifications and create_notification.
Runs == {"scheduler", "immediate"}

\* No job, no run of the dispatcher.
NotifyIdle ==
    /\ notification_queue = <<>>
    /\ runs = [r \in Runs |-> [pc |-> "idle"]]
    /\ smtp_configured = FALSE
    /\ delivered = <<>>

\* No recipient, no detection running.
PipelineIdle ==
    /\ notification_recipients = <<>>
    /\ detection = [pc |-> "idle"]

\* No collection pass running.
CrawlIdle ==
    /\ graph = <<>>
    /\ crawl = [pc |-> "idle"]
    /\ classify = [pc |-> "idle"]

DiffIdle ==
    /\ baseline_perms = <<>>
    /\ current_perms = <<>>
    /\ comparison = NoDict
    /\ insert_failed = {}
    /\ diff_pc = "idle"

Init ==
    /\ BaselineIdle
    /\ DiffIdle
    /\ permission_changes = <<>>
    /\ now = 0
    /\ NotifyIdle
    /\ PipelineIdle
    /\ CrawlIdle

Collect ==
    /\ \E k \in DOMAIN StoreKeys : \E choice \in StoreChoices(k) : CollectRow(k, choice)
    /\ UNCHANGED <<diffVars, permission_changes, now, notifyVars, pipelineVars, crawlVars>>

CreateBaseline ==
    /\ \E site \in Sites : \E set_as_active \in BOOLEAN : create_baseline(site, set_as_active)
    /\ UNCHANGED <<diffVars, permission_changes, now, notifyVars, pipelineVars, crawlVars>>

ActivateBaseline ==
    /\ \E id \in 1..MaxBaselines : activate_baseline(id)
    /\ UNCHANGED <<diffVars, permission_changes, now, notifyVars, pipelineVars, crawlVars>>

DeactivateBaseline ==
    /\ \E id \in 1..MaxBaselines : deactivate_baseline(id)
    /\ UNCHANGED <<diffVars, permission_changes, now, notifyVars, pipelineVars, crawlVars>>

DeleteBaseline ==
    /\ \E id \in 1..MaxBaselines : delete_baseline(id)
    /\ UNCHANGED <<diffVars, permission_changes, now, notifyVars, pipelineVars, crawlVars>>

Next ==
    \/ Collect
    \/ CreateBaseline
    \/ ActivateBaseline
    \/ DeactivateBaseline
    \/ DeleteBaseline

InitDiff ==
    /\ \E bc \in [DOMAIN DiffKeys -> RowChoices],
          cc \in [DOMAIN DiffKeys -> RowChoices],
          name \in {"Ann", "Ann (renamed)"} :
            /\ baseline_perms = SnapshotRows("S1", DiffKeys, bc, "Ann", 1)
            /\ current_perms = SnapshotRows("S1", DiffKeys, cc, name, 1)
    /\ comparison = NoDict
    /\ permission_changes = <<>>
    /\ insert_failed = {}
    /\ diff_pc = "input"
    /\ BaselineIdle
    /\ now = 0
    /\ NotifyIdle
    /\ PipelineIdle
    /\ CrawlIdle

\* comparison = self._compare_permissions(baseline_permissions, current_permissions)
Compare ==
    /\ diff_pc = "input"
    /\ comparison' = _compare_permissions(baseline_perms, current_perms)
    /\ diff_pc' = "compared"
    /\ UNCHANGED <<baseline_perms, current_perms, permission_changes, insert_failed>>
    /\ UNCHANGED <<baselineVars, now, notifyVars, pipelineVars, crawlVars>>

\* await self._record_changes(baseline['id'], site_id, changes)
RecordChanges ==
    /\ diff_pc = "compared"
    /\ LET rows == _record_changes(1, "S1", comparison)
       IN \E failed \in SUBSET DOMAIN rows :
            /\ permission_changes' = permission_changes \o Surviving(rows, failed, 1)
            /\ insert_failed' = failed
    /\ diff_pc' = "recorded"
    /\ UNCHANGED <<baseline_perms, current_perms, comparison>>
    /\ UNCHANGED <<baselineVars, now, notifyVars, pipelineVars, crawlVars>>

NextDiff == Compare \/ RecordChanges

(***************************************************************************)
(* Detection and review of the ledger (SpecLedger)                         *)
(***************************************************************************)

MaxChanges == 1

MaxTime == 10

\* The scheduler's notification_check_interval, in minutes: the step of the clock.
TickMinutes == 5

Reviewers == {"alice", "bob"}

Notes == {None, "checked"}

\* Time passes.
AdvanceClock ==
    /\ now + TickMinutes <= MaxTime
    /\ now' = now + TickMinutes

\* detect_changes_for_site(site_id, notify = False)
detect_changes_for_site(site) ==
    LET active == ActiveOf(permission_baselines, site)
    IN IF active = {}
       THEN /\ last_op' = [op |-> "detect_changes_for_site", site_id |-> site,
                           status |-> "no_baseline"]
            /\ UNCHANGED permission_changes
       ELSE \E id \in active :
              LET changes == _compare_permissions(
                                 permission_baselines[id].baseline_data.permissions,
                                 SiteRows(sharepoint_permissions, site))
                  summary == changes.summary
              IN IF /\ summary.added_count = 0
                    /\ summary.removed_count = 0
                    /\ summary.modified_count = 0
                 THEN /\ last_op' = [op |-> "detect_changes_for_site", site_id |-> site,
                                     status |-> "no_changes"]
                      /\ UNCHANGED permission_changes
                 ELSE LET rows == _record_changes(id, site, changes)
                      IN /\ Len(permission_changes) + Len(rows) <= MaxChanges
                         /\ \E failed \in SUBSET DOMAIN rows :
                              permission_changes' =
                                  permission_changes \o Surviving(rows, failed, 1)
                         /\ last_op' = [op |-> "detect_changes_for_site",
                                        site_id |-> site, status |-> "changes_detected"]

\* A plausible slip: the WHERE clause without "AND reviewed = false".
ReviewTargets_any_status(changes, change_ids) ==
    {i \in DOMAIN changes : i \in change_ids}

\* WHERE id IN (...) AND reviewed = false
ReviewTargets(changes, change_ids) ==
    {i \in DOMAIN changes : i \in change_ids /\ ~changes[i].reviewed}

\* The UPDATE of mark_changes_reviewed.
ReviewUpdate(changes, change_ids, reviewed_by, review_notes, at) ==
    [i \in DOMAIN changes |->
        IF i \in ReviewTargets(changes, change_ids)
        THEN [changes[i] EXCEPT !.reviewed = TRUE,
                                !.reviewed_by = reviewed_by,
                                !.reviewed_at = at,
                                !.review_notes = review_notes]
        ELSE changes[i]]

\* mark_changes_reviewed(change_ids, reviewed_by, review_notes); the value
\* returned is len(change_ids).
mark_changes_reviewed(change_ids, reviewed_by, review_notes) ==
    IF change_ids = {}
    THEN /\ last_op' = [op |-> "mark_changes_reviewed", change_ids |-> change_ids,
                        reviewed_by |-> reviewed_by,
                        affected |-> 0]
         /\ UNCHANGED permission_changes
    ELSE /\ permission_changes' =
              ReviewUpdate(permission_changes, change_ids, reviewed_by, review_notes, now)
         /\ last_op' = [op |-> "mark_changes_reviewed", change_ids |-> change_ids,
                        reviewed_by |-> reviewed_by,
                        affected |-> Cardinality(change_ids)]

\* The state after create_baseline("S1") on a collected site.
InitLedger ==
    LET store == [k \in DOMAIN StoreKeys |->
                    IF StoreKeys[k].site_id = "S1"
                    THEN [permission_level |-> "Read", has_broken_inheritance |-> FALSE]
                    ELSE Absent]
    IN /\ sharepoint_permissions = store
       /\ permission_baselines = <<NewBaseline("S1", SiteRows(store, "S1"), TRUE)>>
       /\ last_op = [op |-> "none"]
       /\ permission_changes = <<>>
       /\ now = 0
       /\ DiffIdle
       /\ NotifyIdle
       /\ PipelineIdle
       /\ CrawlIdle

LedgerCollect ==
    /\ \E k \in DOMAIN StoreKeys : \E choice \in StoreChoices(k) : CollectRow(k, choice)
    /\ UNCHANGED <<diffVars, permission_changes, now, notifyVars, pipelineVars, crawlVars>>

DetectChanges ==
    /\ \E site \in Sites : detect_changes_for_site(site)
    /\ UNCHANGED <<diffVars, sharepoint_permissions, permission_baselines, now, notifyVars, pipelineVars, crawlVars>>

MarkChangesReviewed ==
    /\ \E change_ids \in SUBSET (1..MaxChanges), reviewed_by \in Reviewers, notes \in Notes :
          mark_changes_reviewed(change_ids, reviewed_by, notes)
    /\ UNCHANGED <<diffVars, sharepoint_permissions, permission_baselines, now, notifyVars, pipelineVars, crawlVars>>

LedgerTick ==
    /\ AdvanceClock
    /\ last_op' = [op |-> "tick"]
    /\ UNCHANGED <<diffVars, sharepoint_permissions, permission_baselines,
                   permission_changes, notifyVars, pipelineVars, crawlVars>>

NextLedger ==
    \/ LedgerCollect
    \/ DetectChanges
    \/ MarkChangesReviewed
    \/ LedgerTick

(***************************************************************************)
(* Notification queue and dispatcher (SpecNotify)                          *)
(***************************************************************************)

MaxJobs == 1

MaxRetries == 2

\* INTERVAL '5 minutes'
RetryDelayMinutes == 5

\* max_notifications: int = 10
MaxNotifications == 10

\* priority of a permission_change notification and of a daily summary
Priorities == {5, 7}

\* The row create_notification inserts: status 'pending'; the columns the
\* INSERT does not list (retry_count, max_retries, scheduled_for, created_at)
\* take their defaults.
NewJob(recipient_email, site_id, priority, max_retries, at) ==
    [recipient_email |-> recipient_email,
     related_site_id |-> site_id,
     status        |-> "pending",
     retry_count   |-> 0,
     max_retries   |-> max_retries,
     scheduled_for |-> at,
     created_at    |-> at,
     priority      |-> priority,
     error_message |-> None]

\* WHERE status = 'pending' AND scheduled_for <= CURRENT_TIMESTAMP
DueJobs(queue, at) ==
    {j \in DOMAIN queue : queue[j].status = "pending" /\ queue[j].scheduled_for <= at}

\* ORDER BY priority ASC, created_at ASC (rows that tie come in id order)
Before(queue, a, b) ==
    \/ queue[a].priority < queue[b].priority
    \/ /\ queue[a].priority = queue[b].priority
       /\ queue[a].created_at < queue[b].created_at
    \/ /\ queue[a].priority = queue[b].priority
       /\ queue[a].created_at = queue[b].created_at
       /\ a < b

RECURSIVE OrderJobs(_, _)
OrderJobs(queue, S) ==
    IF S = {} THEN <<>>
    ELSE LET first == CHOOSE a \in S : \A b \in S \ {a} : Before(queue, a, b)
         IN <<first>> \o OrderJobs(queue, S \ {first})

\* LIMIT $1
Limit(seq, n) == SubSeq(seq, 1, IF Len(seq) < n THEN Len(seq) ELSE n)

\* The rows the SELECT of send_pending_notifications returns.
SelectPending(queue, at, max_notifications) ==
    Limit(OrderJobs(queue, DueJobs(queue, at)), max_notifications)

\* The status the claim expects: failed as soon as the failure that is being
\* recorded is the max_retries-th.
FailedStatus_counting_this_failure(retry_count, max_retries) ==
    IF retry_count + 1 >= max_retries THEN "failed" ELSE "pending"

\* status = CASE WHEN retry_count >= max_retries THEN 'failed' ELSE 'pending' END,
\* on the row's value before the UPDATE
FailedStatus(retry_count, max_retries) ==
    IF retry_count >= max_retries THEN "failed" ELSE "pending"

\* scheduled_for = CASE WHEN retry_count < max_retries
\*                 THEN CURRENT_TIMESTAMP + INTERVAL '5 minutes' ELSE scheduled_for END
FailedSchedule(row, at) ==
    IF row.retry_count < row.max_retries THEN at + RetryDelayMinutes ELSE row.scheduled_for

\* The UPDATE of _mark_notification_failed.
_mark_notification_failed(row, error_message, at) ==
    [row EXCEPT !.status = FailedStatus(row.retry_count, row.max_retries),
                !.retry_count = row.retry_count + 1,
                !.error_message = error_message,
                !.scheduled_for = FailedSchedule(row, at)]

\* The job a run is working on.
CurrentJob(r) == runs[r].batch[runs[r].i]

\* The for loop of send_pending_notifications moves on, or the run returns.
NextInBatch(run) ==
    IF run.i < Len(run.batch)
    THEN [pc |-> "mark_sending", batch |-> run.batch, i |-> run.i + 1]
    ELSE [pc |-> "idle"]

InitNotify ==
    /\ notification_queue = <<>>
    /\ delivered = <<>>
    /\ runs = [r \in Runs |-> [pc |-> "idle"]]
    /\ smtp_configured \in BOOLEAN
    /\ now = 0
    /\ BaselineIdle
    /\ DiffIdle
    /\ permission_changes = <<>>
    /\ PipelineIdle
    /\ CrawlIdle

\* create_notification: the INSERT, then "if self.smtp_configured: await
\* self.send_pending_notifications()".
CreateNotification ==
    /\ Len(notification_queue) < MaxJobs
    /\ runs["immediate"].pc = "idle"
    /\ \E priority \in Priorities, max_retries \in 1..MaxRetries :
          notification_queue' =
              Append(notification_queue,
                     NewJob("admin@example.org", None, priority, max_retries, now))
    /\ delivered' = Append(delivered, 0)
    /\ runs' = IF smtp_configured
               THEN [runs EXCEPT !["immediate"] = [pc |-> "select"]]
               ELSE runs
    /\ UNCHANGED <<smtp_configured, now>>

\* SchedulerService.process_notifications; without SMTP settings
\* send_pending_notifications returns 0 at once.
ProcessNotifications ==
    /\ smtp_configured
    /\ runs["scheduler"].pc = "idle"
    /\ runs' = [runs EXCEPT !["scheduler"] = [pc |-> "select"]]
    /\ UNCHANGED <<notification_queue, delivered, smtp_configured, now>>

\* send_pending_notifications: the SELECT; "if not notifications: return 0".
SelectNotifications(r) ==
    /\ runs[r].pc = "select"
    /\ LET notifications == SelectPending(notification_queue, now, MaxNotifications)
       IN runs' = [runs EXCEPT ![r] =
                     IF notifications = <<>>
                     THEN [pc |-> "idle"]
                     ELSE [pc |-> "mark_sending", batch |-> notifications, i |-> 1]]
    /\ UNCHANGED <<notification_queue, delivered, smtp_configured, now>>

\* _send_single_notification: UPDATE ... SET status = 'sending' WHERE id = $1
MarkSending(r) ==
    /\ runs[r].pc = "mark_sending"
    /\ notification_queue' =
          [notification_queue EXCEPT ![CurrentJob(r)].status = "sending"]
    /\ runs' = [runs EXCEPT ![r].pc = "transport"]
    /\ UNCHANGED <<delivered, smtp_configured, now>>

\* _send_single_notification: smtp.login and smtp.send_message succeed or raise.
Transport(r) ==
    /\ runs[r].pc = "transport"
    /\ \E accepted \in BOOLEAN :
          IF accepted
          THEN /\ delivered' = [delivered EXCEPT ![CurrentJob(r)] = @ + 1]
               /\ runs' = [runs EXCEPT ![r].pc = "mark_sent"]
          ELSE /\ runs' = [runs EXCEPT ![r].pc = "mark_failed"]
               /\ UNCHANGED delivered
    /\ UNCHANGED <<notification_queue, smtp_configured, now>>

\* _send_single_notification: UPDATE ... SET status = 'sent'
MarkSent(r) ==
    /\ runs[r].pc = "mark_sent"
    /\ notification_queue' =
          [notification_queue EXCEPT ![CurrentJob(r)].status = "sent"]
    /\ runs' = [runs EXCEPT ![r] = NextInBatch(runs[r])]
    /\ UNCHANGED <<delivered, smtp_configured, now>>

\* send_pending_notifications: except ...: await self._mark_notification_failed;
\* when the UPDATE itself raises, the error is logged and the row stays as it is.
MarkFailed(r) ==
    /\ runs[r].pc = "mark_failed"
    /\ \E update_raises \in BOOLEAN :
          IF update_raises
          THEN UNCHANGED notification_queue
          ELSE notification_queue' =
                  [notification_queue EXCEPT ![CurrentJob(r)] =
                      _mark_notification_failed(@, "SMTP error", now)]
    /\ runs' = [runs EXCEPT ![r] = NextInBatch(runs[r])]
    /\ UNCHANGED <<delivered, smtp_configured, now>>

NotifyTick ==
    /\ AdvanceClock
    /\ UNCHANGED <<notification_queue, delivered, runs, smtp_configured>>

notNotifyVars == <<diffVars, permission_changes, baselineVars, pipelineVars, crawlVars>>

NotifyCreate == CreateNotification /\ UNCHANGED notNotifyVars

NotifyProcess == ProcessNotifications /\ UNCHANGED notNotifyVars

NotifySelect == \E r \in Runs : SelectNotifications(r) /\ UNCHANGED notNotifyVars

NotifyMarkSending == \E r \in Runs : MarkSending(r) /\ UNCHANGED notNotifyVars

NotifyTransport == \E r \in Runs : Transport(r) /\ UNCHANGED notNotifyVars

NotifyMarkSent == \E r \in Runs : MarkSent(r) /\ UNCHANGED notNotifyVars

NotifyMarkFailed == \E r \in Runs : MarkFailed(r) /\ UNCHANGED notNotifyVars

NotifyClock == NotifyTick /\ UNCHANGED notNotifyVars

NextNotify ==
    \/ NotifyCreate
    \/ NotifyProcess
    \/ NotifySelect
    \/ NotifyMarkSending
    \/ NotifyTransport
    \/ NotifyMarkSent
    \/ NotifyMarkFailed
    \/ NotifyClock

(***************************************************************************)
(* Detection with notification (SpecDetect)                                *)
(***************************************************************************)

MaxQueued == 2

\* Rows the table notification_recipients may hold.
RecipientRows ==
    << [recipient_email |-> "s1@example.org", site_id |-> "S1", is_active |-> TRUE,
        notification_types |-> {"permission_change"}],
       [recipient_email |-> "all@example.org", site_id |-> None, is_active |-> TRUE,
        notification_types |-> {"permission_change", "daily_summary"}],
       [recipient_email |-> "s2@example.org", site_id |-> "S2", is_active |-> TRUE,
        notification_types |-> {"permission_change"}],
       [recipient_email |-> "off@example.org", site_id |-> "S1", is_active |-> FALSE,
        notification_types |-> {"permission_change"}],
       [recipient_email |-> "daily@example.org", site_id |-> None, is_active |-> TRUE,
        notification_types |-> {"daily_summary"}] >>

RECURSIVE RowsAt(_, _, _)
RowsAt(rows, S, i) ==
    IF i > Len(rows) THEN <<>>
    ELSE (IF i \in S THEN <<rows[i]>> ELSE <<>>) \o RowsAt(rows, S, i + 1)

\* A plausible slip: the recipients of every site are taken.
RecipientMatches_any_site(row, site) ==
    /\ row.is_active
    /\ "permission_change" \in row.notification_types

\* WHERE (site_id = $1 OR site_id IS NULL) AND is_active = true
\*   AND 'permission_change' = ANY(notification_types)
RecipientMatches(row, site) ==
    /\ row.site_id = site \/ row.site_id = None
    /\ row.is_active
    /\ "permission_change" \in row.notification_types

\* The rows recipients_query returns.
SelectRecipients(table, site) ==
    RowsAt(table, {i \in DOMAIN table : RecipientMatches(table[i], site)}, 1)

\* SELECT DISTINCT site_id, site_url, baseline_name FROM permission_baselines
\* WHERE is_active = true: one row per site, site_url and baseline_name being
\* the same on the active rows of a site.
ActiveSites(bs) ==
    SetToSeq({bs[i].site_id : i \in {j \in LiveBaselines(bs) : bs[j].is_active}})

\* A plausible slip: the loop of detect_all_sites ends at the first error.
NextSite_stops_at_error(det, result) ==
    [pc      |-> IF det.i < Len(det.sites) /\ result.status # "error"
                 THEN "detect" ELSE "done",
     mode    |-> det.mode,
     sites   |-> det.sites,
     i       |-> IF det.i < Len(det.sites) /\ result.status # "error"
                 THEN det.i + 1 ELSE det.i,
     notify  |-> det.notify,
     results |-> Append(det.results, result)]

\* The detection goes on with the next site of detect_all_sites, or returns.
NextSite(det, result) ==
    [pc      |-> IF det.i < Len(det.sites) THEN "detect" ELSE "done",
     mode    |-> det.mode,
     sites   |-> det.sites,
     i       |-> IF det.i < Len(det.sites) THEN det.i + 1 ELSE det.i,
     notify  |-> det.notify,
     results |-> Append(det.results, result)]

\* The dict detect_changes_for_site returns when it found changes.
ChangesDetected(site, notification_result) ==
    [status              |-> "changes_detected",
     site_id             |-> site,
     notification_sent   |-> notification_result # NoDict,
     notification_result |-> notification_result]

\* A plausible slip: _notify_changes lets the exception through.
NotifyError_propagates(site) == [status |-> "error", site_id |-> site]

\* _notify_changes: except Exception: log, return None.
NotifyError(site) == ChangesDetected(site, NoDict)

\* UPDATE permission_changes SET notification_sent = true
\* WHERE baseline_id = $1 AND notification_sent = false
_mark_changes_notified(changes, baseline_id) ==
    [c \in DOMAIN changes |->
        IF changes[c].baseline_id = baseline_id /\ ~changes[c].notification_sent
        THEN [changes[c] EXCEPT !.notification_sent = TRUE]
        ELSE changes[c]]

\* detect_changes_for_site(site_id, notify) is called.
StartDetectSite(site, notify) ==
    /\ detection.pc = "idle"
    /\ detection' = [pc |-> "detect", mode |-> "site", sites |-> <<site>>, i |-> 1,
                     notify |-> notify, results |-> <<>>]
    /\ UNCHANGED <<permission_changes, notification_queue, delivered, runs>>

\* detect_all_sites(notify) is called: the sites query; "if not sites: return []".
StartDetectAll(notify) ==
    /\ detection.pc = "idle"
    /\ LET sites == ActiveSites(permission_baselines)
       IN detection' = [pc |-> IF sites = <<>> THEN "done" ELSE "detect",
                        mode |-> "all", sites |-> sites, i |-> 1,
                        notify |-> notify, results |-> <<>>]
    /\ UNCHANGED <<permission_changes, notification_queue, delivered, runs>>

\* detect_changes_for_site up to the call of create_notification: the active
\* baseline, compare_with_current, _record_changes and, with notify, the
\* recipients query of _notify_changes. A database error before the changes are
\* recorded raises: detect_all_sites turns it into an error entry.
DetectSite ==
    /\ detection.pc = "detect"
    /\ LET site   == detection.sites[detection.i]
           active == ActiveOf(permission_baselines, site)
       IN \E db_error \in BOOLEAN :
            IF db_error
            THEN /\ detection' =
                      IF detection.mode = "all"
                      THEN NextSite(detection, [status |-> "error", site_id |-> site])
                      ELSE [pc |-> "raised", mode |-> "site", sites |-> detection.sites,
                            i |-> 1, notify |-> detection.notify, results |-> <<>>]
                 /\ UNCHANGED permission_changes
            ELSE IF active = {}
            THEN /\ detection' =
                      NextSite(detection, [status |-> "no_baseline", site_id |-> site])
                 /\ UNCHANGED permission_changes
            ELSE \E id \in active :
                   LET changes == _compare_permissions(
                                      permission_baselines[id].baseline_data.permissions,
                                      SiteRows(sharepoint_permissions, site))
                       summary == changes.summary
                       rows    == _record_changes(id, site, changes)
                       recipients == SelectRecipients(notification_recipients, site)
                   IN IF /\ summary.added_count = 0
                         /\ summary.removed_count = 0
                         /\ summary.modified_count = 0
                      THEN /\ detection' =
                                NextSite(detection, [status |-> "no_changes", site_id |-> site])
                           /\ UNCHANGED permission_changes
                      ELSE /\ Len(permission_changes) + Len(rows) <= MaxChanges
                           /\ \E failed \in SUBSET DOMAIN rows :
                                permission_changes' =
                                    permission_changes \o Surviving(rows, failed, 1)
                           /\ IF ~detection.notify
                              THEN detection' = NextSite(detection, ChangesDetected(site, NoDict))
                              ELSE \E query_raises \in BOOLEAN :
                                     IF query_raises
                                     THEN detection' = NextSite(detection, NotifyError(site))
                                     ELSE IF recipients = <<>>
                                     THEN detection' =
                                              NextSite(detection, ChangesDetected(site, NoDict))
                                     ELSE /\ Len(notification_queue) + Len(recipients)
                                                <= MaxQueued
                                          /\ detection' =
                                                [pc |-> "create", mode |-> detection.mode,
                                                 sites |-> detection.sites, i |-> detection.i,
                                                 notify |-> TRUE, results |-> detection.results,
                                                 baseline_id |-> id, recipients |-> recipients,
                                                 k |-> 1, created |-> 0]
    /\ UNCHANGED <<notification_queue, delivered, runs>>

\* _notify_changes: create_notification for the next recipient; priority takes
\* its default. With SMTP settings create_notification awaits
\* send_pending_notifications before it returns.
NotifyCreateJob ==
    /\ detection.pc = "create"
    /\ runs["immediate"].pc = "idle"
    /\ LET site      == detection.sites[detection.i]
           recipient == detection.recipients[detection.k]
       IN \E insert_raises \in BOOLEAN :
            IF insert_raises
            THEN /\ detection' = NextSite(detection, NotifyError(site))
                 /\ UNCHANGED <<notification_queue, delivered, runs>>
            ELSE /\ \E max_retries \in 1..MaxRetries :
                      notification_queue' =
                          Append(notification_queue,
                                 NewJob(recipient.recipient_email, site, 5, max_retries, now))
                 /\ delivered' = Append(delivered, 0)
                 /\ runs' = IF smtp_configured
                            THEN [runs EXCEPT !["immediate"] = [pc |-> "select"]]
                            ELSE runs
                 /\ detection' =
                      IF detection.k < Len(detection.recipients)
                      THEN [detection EXCEPT !.k = @ + 1, !.created = @ + 1]
                      ELSE [detection EXCEPT !.pc = "mark_notified", !.created = @ + 1]
    /\ UNCHANGED permission_changes

\* _notify_changes: _mark_changes_notified (a failure of its UPDATE is logged)
\* and the returned counts.
NotifyMarkNotified ==
    /\ detection.pc = "mark_notified"
    /\ runs["immediate"].pc = "idle"
    /\ \E update_raises \in BOOLEAN :
          permission_changes' =
              IF update_raises THEN permission_changes
              ELSE _mark_changes_notified(permission_changes, detection.baseline_id)
    /\ detection' =
          NextSite(detection,
                   ChangesDetected(detection.sites[detection.i],
                                   [recipients_count      |-> Len(detection.recipients),
                                    notifications_created |-> detection.created]))
    /\ UNCHANGED <<notification_queue, delivered, runs>>

\* Two sites with one active baseline each, captured when every key held
\* (Read, false); since then the collector has left any rows. The table of
\* recipients holds the inactive and the summary-only recipient and any of the
\* others. One call of the detection is followed from here.
InitDetect ==
    LET store == [k \in DOMAIN StoreKeys |->
                     [permission_level |-> "Read", has_broken_inheritance |-> FALSE]]
    IN /\ sharepoint_permissions \in
              {s \in [DOMAIN StoreKeys -> UNION {StoreChoices(k) : k \in DOMAIN StoreKeys}] :
                  \A k \in DOMAIN StoreKeys : s[k] \in StoreChoices(k)}
       /\ permission_baselines = <<NewBaseline("S1", SiteRows(store, "S1"), TRUE),
                                   NewBaseline("S2", SiteRows(store, "S2"), TRUE)>>
       /\ last_op = [op |-> "none"]
       /\ permission_changes = <<>>
       /\ now = 0
       /\ DiffIdle
       /\ notification_queue = <<>>
       /\ delivered = <<>>
       /\ runs = [r \in Runs |-> [pc |-> "idle"]]
       /\ smtp_configured \in BOOLEAN
       /\ \E S \in SUBSET {1, 2, 3} :
             notification_recipients = RowsAt(RecipientRows, S \cup {4, 5}, 1)
       /\ detection = [pc |-> "idle"]
       /\ CrawlIdle

notDetectVars ==
    <<diffVars, baselineVars, now, smtp_configured, notification_recipients, crawlVars>>

DetectStartSite ==
    /\ \E site \in Sites, notify \in BOOLEAN : StartDetectSite(site, notify)
    /\ UNCHANGED notDetectVars

DetectStartAll ==
    /\ \E notify \in BOOLEAN : StartDetectAll(notify)
    /\ UNCHANGED notDetectVars

DetectSiteStep == DetectSite /\ UNCHANGED notDetectVars

DetectCreateJob == NotifyCreateJob /\ UNCHANGED notDetectVars

DetectMarkNotified == NotifyMarkNotified /\ UNCHANGED notDetectVars

NextDetect ==
    \/ DetectStartSite
    \/ DetectStartAll
    \/ DetectSiteStep
    \/ DetectCreateJob
    \/ DetectMarkNotified
    \/ NotifySelect
    \/ NotifyMarkSending
    \/ NotifyTransport
    \/ NotifyMarkSent
    \/ NotifyMarkFailed

(***************************************************************************)
(* Baselines under collection, comparison and detection (SpecFrame)        *)
(***************************************************************************)

\* compare_with_current(baseline_id): the comparison of the payload with the
\* site's current rows; the summary is what _cache_comparison stores and the
\* caller gets back.
compare_with_current(id) ==
    /\ IF id \in LiveBaselines(permission_baselines)
       THEN LET baseline == permission_baselines[id]
                changes  == _compare_permissions(
                               baseline.baseline_data.permissions,
                               SiteRows(sharepoint_permissions, baseline.site_id))
            IN last_op' = [op |-> "compare_with_current", id |-> id, result |-> "ok",
                           summary |-> changes.summary]
       ELSE last_op' = [op |-> "compare_with_current", id |-> id, result |-> "ValueError"]
    /\ UNCHANGED <<sharepoint_permissions, permission_baselines>>

CompareWithCurrent ==
    /\ \E id \in 1..MaxBaselines : compare_with_current(id)
    /\ UNCHANGED <<diffVars, permission_changes, now, notifyVars, pipelineVars, crawlVars>>

\* The state after create_baseline on a collected site S1, whatever S1 and
\* S2 held then and whether the baseline was set active.
InitFrame ==
    /\ sharepoint_permissions \in
           {s \in [DOMAIN StoreKeys -> UNION {StoreChoices(k) : k \in DOMAIN StoreKeys}] :
               /\ \A k \in DOMAIN StoreKeys : s[k] \in StoreChoices(k)
               /\ ~NoPermissions(SiteRows(s, "S1"))}
    /\ \E set_as_active \in BOOLEAN :
          permission_baselines =
              <<NewBaseline("S1", SiteRows(sharepoint_permissions, "S1"), set_as_active)>>
    /\ last_op = [op |-> "none"]
    /\ permission_changes = <<>>
    /\ now = 0
    /\ DiffIdle
    /\ NotifyIdle
    /\ PipelineIdle
    /\ CrawlIdle

NextFrame ==
    \/ Collect
    \/ ActivateBaseline
    \/ DeactivateBaseline
    \/ CompareWithCurrent
    \/ DetectChanges

(***************************************************************************)
(* Collector: the principal columns of a grant                             *)
(* (collect_sharepoint_permissions.process_single_resource)                *)
(***************************************************************************)

\* A str of the collector is the sequence of its characters, so that its
\* length, its substrings and its base64 reading are computed.
Base64Alphabet ==
    <<"A", "B", "C", "D", "E", "F", "G", "H", "I", "J", "K", "L", "M",
      "N", "O", "P", "Q", "R", "S", "T", "U", "V", "W", "X", "Y", "Z",
      "a", "b", "c", "d", "e", "f", "g", "h", "i", "j", "k", "l", "m",
      "n", "o", "p", "q", "r", "s", "t", "u", "v", "w", "x", "y", "z",
      "0", "1", "2", "3", "4", "5", "6", "7", "8", "9", "+", "/">>

\* The value of a character in the base64 alphabet, -1 outside it.
B64Index(c) ==
    IF \E i \in DOMAIN Base64Alphabet : Base64Alphabet[i] = c
    THEN (CHOOSE i \in DOMAIN Base64Alphabet : Base64Alphabet[i] = c) - 1
    ELSE 0 - 1

\* The byte str.encode('utf-8') gives for a character of the names used
\* here: letters, digits, the space and the underscore.
Ord(c) ==
    LET v == B64Index(c)
    IN IF v >= 0 /\ v < 26 THEN 65 + v
       ELSE IF v >= 26 /\ v < 52 THEN 97 + (v - 26)
       ELSE IF v >= 52 /\ v < 62 THEN 48 + (v - 52)
       ELSE IF c = " " THEN 32
       ELSE 95

Encode(text) == [i \in DOMAIN text |-> Ord(text[i])]

\* What stands for an exception of b64decode or of bytes.decode: no str.
NoText == <<0 - 1>>

\* The bytes the sextets read so far in the current group of four give.
QuadBytes(quad) ==
    IF Len(quad) < 2 THEN <<>>
    ELSE <<quad[1] * 4 + (quad[2] \div 16)>>
         \o (IF Len(quad) < 3 THEN <<>>
             ELSE <<(quad[2] % 16) * 16 + (quad[3] \div 4)>>
                  \o (IF Len(quad) < 4 THEN <<>>
                      ELSE <<(quad[3] % 4) * 64 + quad[4]>>))

\* base64.b64decode without validation: characters outside the alphabet are
\* skipped, padding that completes a group ends the data, padding elsewhere
\* is skipped, and an incomplete group at the end raises.
RECURSIVE B64Scan(_, _, _, _, _)
B64Scan(text, i, quad, pads, out) ==
    IF i > Len(text)
    THEN IF quad = <<>> THEN out ELSE NoText
    ELSE IF text[i] = "="
    THEN IF Len(quad) >= 2
         THEN IF Len(quad) + pads + 1 >= 4
              THEN out \o QuadBytes(quad)
              ELSE B64Scan(text, i + 1, quad, pads + 1, out)
         ELSE B64Scan(text, i + 1, quad, pads, out)
    ELSE IF B64Index(text[i]) < 0
    THEN B64Scan(text, i + 1, quad, pads, out)
    ELSE LET q == Append(quad, B64Index(text[i]))
         IN IF Len(q) = 4
            THEN B64Scan(text, i + 1, <<>>, 0, out \o QuadBytes(q))
            ELSE B64Scan(text, i + 1, q, 0, out)

b64decode(text) == B64Scan(text, 1, <<>>, 0, <<>>)

\* bytes.decode('utf-8'), as bytes again: ASCII decodes to itself. A byte
\* above 127 raises or gives a character outside the names used here; both
\* leave the comparison with the display name false.
Utf8Decode(bytes) ==
    IF bytes # NoText /\ \A i \in DOMAIN bytes : bytes[i] < 128 THEN bytes ELSE NoText

\* `keyword in principal_name`
Contains(text, keyword) ==
    \E i \in 0..(Len(text) - Len(keyword)) :
        \A j \in DOMAIN keyword : text[i + j] = keyword[j]

\* group_keywords
group_keywords ==
    {<<"M", "e", "m", "b", "e", "r", "s">>,
     <<"O", "w", "n", "e", "r", "s">>,
     <<"V", "i", "s", "i", "t", "o", "r", "s">>,
     <<"C", "o", "n", "t", "r", "i", "b", "u", "t", "o", "r", "s">>,
     <<"G", "r", "o", "u", "p">>}

\* len(principal_id) > 10
MinEncodedLength == 10

\* A plausible slip: the ids of every length are decoded.
LooksEncoded_any_length(principal_id) == principal_id # <<>>

\* if principal_id and len(principal_id) > 10
LooksEncoded(principal_id) ==
    /\ principal_id # <<>>
    /\ Len(principal_id) > MinEncodedLength

\* decoded = base64.b64decode(principal_id + '===').decode('utf-8');
\* decoded and decoded == principal_name. An exception is passed over.
DecodesToName(principal_id, principal_name) ==
    /\ LooksEncoded(principal_id)
    /\ LET decoded == Utf8Decode(b64decode(principal_id \o <<"=", "=", "=">>))
       IN /\ decoded # NoText
          /\ decoded # <<>>
          /\ decoded = Encode(principal_name)

\* An Optional[str] that is None or '': the two are falsy alike, and the
\* collector tests such a value for truth only.
NoStr == <<>>

\* d.get(f) for a str field.
GetStr(d, f) == IF f \in DOMAIN d THEN d[f] ELSE NoStr

\* not principal_email or '@' not in str(principal_email)
NoUsableEmail(principal_email) ==
    \/ principal_email = NoStr
    \/ ~\E i \in DOMAIN principal_email : principal_email[i] = "@"

\* x or y, for two Optional[str]
Or(x, y) == IF x = NoStr THEN y ELSE x

\* The principal columns of the row stored for a grantee: the branches on
\* 'user', 'group' and 'application' in grantee. perm_id is the id of the
\* permission entry, the default of the principal id.
PrincipalOf(grantee, perm_id, resource_name) ==
    IF "user" \in DOMAIN grantee
    THEN LET user == grantee["user"]
             principal_id    == IF "id" \in DOMAIN user THEN user.id ELSE perm_id
             principal_name  == user.displayName
             principal_email == Or(GetStr(user, "email"), GetStr(user, "userPrincipalName"))
             as_group ==
                 \/ DecodesToName(principal_id, principal_name)
                 \/ /\ \E keyword \in group_keywords : Contains(principal_name, keyword)
                    /\ NoUsableEmail(principal_email)
         IN [principal_type  |-> IF as_group THEN "group" ELSE "user",
             principal_id    |-> principal_id,
             principal_name  |-> principal_name,
             principal_email |-> principal_email,
             is_human        |-> ~as_group]
    ELSE IF "group" \in DOMAIN grantee
    THEN LET group == grantee["group"]
             group_name == group.displayName
             contaminated ==
                 \/ group_name = <<>>
                 \/ group_name = resource_name
                 \/ Contains(group_name,
                             resource_name \o <<" ", "P", "e", "r", "m", "i", "s", "s", "i", "o", "n", "s">>)
         IN [principal_type  |-> "group",
             principal_id    |-> IF "id" \in DOMAIN group THEN group.id ELSE perm_id,
             principal_name  |-> IF contaminated
                                 THEN Or(GetStr(group, "email"),
                                         Or(GetStr(group, "description"),
                                            <<"S", "h", "a", "r", "e", "P", "o", "i", "n", "t", " ",
                                              "G", "r", "o", "u", "p">>))
                                 ELSE group_name,
             principal_email |-> GetStr(group, "email"),
             is_human        |-> FALSE]
    ELSE IF "application" \in DOMAIN grantee
    THEN LET application == grantee["application"]
         IN [principal_type  |-> "application",
             principal_id    |-> IF "id" \in DOMAIN application THEN application.id ELSE perm_id,
             principal_name  |-> application.displayName,
             principal_email |-> NoStr,
             is_human        |-> FALSE]
    ELSE [principal_type  |-> "unknown",
          principal_id    |-> perm_id,
          principal_name  |-> <<"U", "n", "k", "n", "o", "w", "n">>,
          principal_email |-> NoStr,
          is_human        |-> FALSE]

(***************************************************************************)
(* SpecClassify: PrincipalOf as a function of one grantee                  *)
(***************************************************************************)

\* Ids of grantees: three that are the base64 of a display name below
\* ("Marketing", "Team", "Site Owners"), a directory id, and an id that is
\* no base64 text.
GranteeIds ==
    {<<"T", "W", "F", "y", "a", "2", "V", "0", "a", "W", "5", "n">>,
     <<"V", "G", "V", "h", "b", "Q", "=", "=">>,
     <<"U", "2", "l", "0", "Z", "S", "B", "P", "d", "2", "5", "l", "c", "n", "M", "=">>,
     <<"a", "1", "b", "2", "c", "3", "d", "4", "-", "0", "0", "0", "0">>,
     <<"a", "b", "c", "d", "e", "f", "g", "h", "i", "j", "k", "l", "m">>}

DisplayNames ==
    {<<"M", "a", "r", "k", "e", "t", "i", "n", "g">>,
     <<"T", "e", "a", "m">>,
     <<"S", "i", "t", "e", " ", "O", "w", "n", "e", "r", "s">>,
     <<"A", "l", "i", "c", "e">>}

\* An address, and a login name that is none.
Emails == {<<"a", "@", "b">>, <<"s", "p">>}

\* The optional fields of a facet: any of them may be missing.
WithOptional(base, optional) ==
    {f \in UNION {[{"displayName", "id"} \cup D ->
                      base.ids \cup base.names \cup UNION {optional[k] : k \in DOMAIN optional}] :
                     D \in SUBSET DOMAIN optional} :
        /\ f.id \in base.ids
        /\ f.displayName \in base.names
        /\ \A k \in DOMAIN f \ {"displayName", "id"} : f[k] \in optional[k]}

\* grantee: grantedTo, or the first of grantedToIdentities.
Grantees ==
    {[user |-> u] :
        u \in WithOptional([ids |-> GranteeIds, names |-> DisplayNames],
                           [email |-> Emails, userPrincipalName |-> {<<"a", "@", "b">>}])}
    \cup {[group |-> g] :
        g \in WithOptional([ids |-> {<<"g", "1">>}, names |-> DisplayNames],
                           [email |-> {<<"a", "@", "b">>}])}
    \cup {[application |-> [id |-> <<"a", "p", "p">>, displayName |-> <<"A", "l", "i", "c", "e">>]],
          [siteUser |-> [id |-> <<"7">>, displayName |-> <<"A", "l", "i", "c", "e">>]]}

InitClassify ==
    /\ BaselineIdle
    /\ DiffIdle
    /\ permission_changes = <<>>
    /\ now = 0
    /\ NotifyIdle
    /\ PipelineIdle
    /\ graph = <<>>
    /\ crawl = [pc |-> "idle"]
    /\ \E grantee \in Grantees :
          classify = [pc |-> "grantee", grantee |-> grantee]

\* The principal columns are computed and go into the INSERT.
ClassifyGrantee ==
    /\ classify.pc = "grantee"
    /\ classify' = [pc |-> "stored",
                    grantee |-> classify.grantee,
                    row |-> PrincipalOf(classify.grantee, <<"p", "1">>, <<"T", "e", "a", "m">>)]
    /\ UNCHANGED <<diffVars, permission_changes, baselineVars, now, notifyVars, pipelineVars,
                   graph, crawl>>

NextClassify == ClassifyGrantee

(***************************************************************************)
(* Collector: the table as the two passes write it                         *)
(* (collect_drive_items_fast, collect_sharepoint_permissions)              *)
(***************************************************************************)

\* In SpecCrawl sharepoint_permissions gives, for each row with the columns
\* the collector writes, how many times the table holds it: the unique key is
\* left to the ON CONFLICT clauses. tenant_id, the urls and collected_at are
\* left out of the rows.

\* Sum of f over S.
RECURSIVE SumOver(_, _)
SumOver(S, f) ==
    IF S = {} THEN 0
    ELSE LET i == CHOOSE k \in S : TRUE IN f[i] + SumOver(S \ {i}, f)

\* The table with one more row.
InsertRow(table, row) ==
    [r \in DOMAIN table \cup {row} |->
        (IF r \in DOMAIN table THEN table[r] ELSE 0) + (IF r = row THEN 1 ELSE 0)]

\* The rows of a resource with a principal id, and those with another one.
RowsOf(table, resource_id, principal_id, same) ==
    {r \in DOMAIN table : /\ r.resource_id = resource_id
                          /\ (r.principal_id = principal_id) = same}

\* resource_type as it appears in an f-string.
TypeText(resource_type) ==
    CASE resource_type = "site"   -> <<"s", "i", "t", "e">>
      [] resource_type = "folder" -> <<"f", "o", "l", "d", "e", "r">>
      [] resource_type = "file"   -> <<"f", "i", "l", "e">>

\* f"{resource_type}_{resource_id}": the principal id of the structure row.
SentinelId(resource_type, resource_id) == TypeText(resource_type) \o <<"_">> \o resource_id

\* A plausible slip: the INSERT has no ON CONFLICT clause.
Upsert_always_insert(table, row, updated) == InsertRow(table, row)

\* INSERT ... ON CONFLICT (resource_id, principal_id) DO UPDATE SET the
\* columns `updated` from the new row.
Upsert(table, row, updated) ==
    LET conflicting == RowsOf(table, row.resource_id, row.principal_id, TRUE)
        set(r) == [c \in DOMAIN r |-> IF c \in updated THEN row[c] ELSE r[c]]
    IN IF conflicting = {} THEN InsertRow(table, row)
       ELSE [r \in (DOMAIN table \ conflicting) \cup {set(c) : c \in conflicting} |->
                IF r \in DOMAIN table \ conflicting THEN table[r]
                ELSE SumOver({c \in conflicting : set(c) = r}, table)]

\* The structure row of a site or of a drive item.
StructureRow(resource_type, item, parent_resource_id, site_id) ==
    [resource_type          |-> resource_type,
     resource_id            |-> item.id,
     resource_name          |-> item.name,
     parent_resource_id     |-> parent_resource_id,
     site_id                |-> site_id,
     has_broken_inheritance |-> FALSE,
     permission_type        |-> "structure",
     principal_type         |-> "resource",
     principal_id           |-> SentinelId(resource_type, item.id),
     principal_name         |-> item.name,
     principal_email        |-> NoStr,
     is_human               |-> FALSE,
     permission_level       |-> "N/A"]

\* permission_level and permission_type of a permission entry.
LevelOf(perm) ==
    LET permission_level == IF perm.roles = <<>> THEN "Read" ELSE perm.roles[1]
    IN IF "link" \in DOMAIN perm
       THEN [permission_type  |-> "shared",
             permission_level |-> permission_level \o " (Shared via " \o perm.link \o " link)"]
       ELSE [permission_type  |-> IF "inheritedFrom" \in DOMAIN perm THEN "inherited" ELSE "direct",
             permission_level |-> permission_level]

\* grantee: grantedTo, else the first of grantedToIdentities, else none.
GranteeOf(perm) ==
    IF "grantedTo" \in DOMAIN perm THEN perm.grantedTo
    ELSE IF "grantedToIdentities" \in DOMAIN perm /\ perm.grantedToIdentities # <<>>
    THEN perm.grantedToIdentities[1]
    ELSE NoDict

\* has_unique_perms when the loop is at entry i: set by this entry or by
\* one before it.
SeenDirect(permissions, i) ==
    \E j \in 1..i : "inheritedFrom" \notin DOMAIN permissions[j]

\* The loop `for perm in permissions` from entry i on: the row of each entry
\* with a grantee is upserted, taking the resource columns from a row of
\* the resource and has_broken_inheritance from has_unique_perms as it is
\* then.
RECURSIVE InsertGrants(_, _, _, _)
InsertGrants(table, resource, permissions, i) ==
    IF i > Len(permissions) THEN table
    ELSE LET perm    == permissions[i]
             grantee == GranteeOf(perm)
             principal == PrincipalOf(grantee, perm.id, resource.resource_name)
             resource_info ==
                 CHOOSE r \in DOMAIN table : r.resource_id = resource.resource_id
             row == [resource_type          |-> resource_info.resource_type,
                     resource_id            |-> resource.resource_id,
                     resource_name          |-> resource_info.resource_name,
                     parent_resource_id     |-> resource_info.parent_resource_id,
                                     site_id                |-> resource_info.site_id,
                     has_broken_inheritance |-> SeenDirect(permissions, i),
                     permission_type        |-> LevelOf(perm).permission_type,
                     principal_type         |-> principal.principal_type,
                     principal_id           |-> principal.principal_id,
                     principal_name         |-> principal.principal_name,
                     principal_email        |-> principal.principal_email,
                     is_human               |-> principal.is_human,
                     permission_level       |-> LevelOf(perm).permission_level]
         IN IF grantee = NoDict
            THEN InsertGrants(table, resource, permissions, i + 1)
            ELSE InsertGrants(Upsert(table, row,
                                     {"permission_level", "collected_at", "has_broken_inheritance"}),
                              resource, permissions, i + 1)

\* The branch of process_single_resource on 200 from the permission
\* endpoint: the rows of the resource other than its structure row are
\* deleted, the entries are inserted, and the structure row gets
\* has_unique_perms.
ReplaceGrants(table, resource, permissions) ==
    LET sentinel == SentinelId(resource.resource_type, resource.resource_id)
        deleted  == RowsOf(table, resource.resource_id, sentinel, FALSE)
        kept     == [r \in DOMAIN table \ deleted |-> table[r]]
        inserted == InsertGrants(kept, resource, permissions, 1)
    IN IF RowsOf(inserted, resource.resource_id, sentinel, TRUE) = {} THEN inserted
       ELSE Upsert(inserted,
                   [resource_id |-> resource.resource_id, principal_id |-> sentinel,
                    has_broken_inheritance |-> SeenDirect(permissions, Len(permissions))],
                   {"has_broken_inheritance"})

\* ORDER BY resource_type, resource_name
ResourceBefore(a, b) ==
    LET x == Encode(TypeText(a.resource_type)) \o <<0>> \o Encode(a.resource_name)
        y == Encode(TypeText(b.resource_type)) \o <<0>> \o Encode(b.resource_name)
    IN \/ \E i \in DOMAIN x \cap DOMAIN y :
             x[i] < y[i] /\ \A j \in 1..(i - 1) : x[j] = y[j]
       \/ Len(x) < Len(y) /\ \A j \in DOMAIN x : x[j] = y[j]

\* The rows of a result in the order of ORDER BY resource_type, resource_name.
RECURSIVE InOrder(_)
InOrder(found) ==
    IF found = {} THEN <<>>
    ELSE LET first == CHOOSE a \in found : \A b \in found \ {a} : ~ResourceBefore(b, a)
         IN <<first>> \o InOrder(found \ {first})

\* resources_query: SELECT DISTINCT resource_id, resource_type,
\* resource_name, site_id ... WHERE resource_type IN ('folder', 'file').
Resources(table) ==
    LET found == {[resource_id   |-> r.resource_id,
                   resource_type |-> r.resource_type,
                   resource_name |-> r.resource_name,
                   site_id       |-> r.site_id] :
                     r \in {x \in DOMAIN table : x.resource_type \in {"folder", "file"}}}
    IN InOrder(found)

(***************************************************************************)
(* SpecCrawl: the passes of the collector against one upstream             *)
(***************************************************************************)

\* Entries a permission listing is made of, at most.
MaxGrants == 2

\* batch_size = 5
batch_size == 5

\* max_retries = 3
fetch_max_retries == 3

\* wait_time = (2 ** attempt) * 5
backoff_base == 5

\* Entries of a permission listing: a direct grant to a user, the same user
\* by inheritance, an inherited grant to a group and a second user, and a
\* sharing link of the resource's own with no grantee.
PermissionEntries ==
    {[id |-> <<"p", "1">>, roles |-> <<"write">>,
      grantedTo |-> [user |-> [id |-> <<"u", "1">>, displayName |-> <<"A", "l", "i", "c", "e">>,
                               email |-> <<"a", "@", "b">>]]],
     [id |-> <<"p", "2">>, roles |-> <<"read">>, inheritedFrom |-> "parent",
      grantedTo |-> [user |-> [id |-> <<"u", "1">>, displayName |-> <<"A", "l", "i", "c", "e">>,
                               email |-> <<"a", "@", "b">>]]],
     [id |-> <<"p", "3">>, roles |-> <<>>, inheritedFrom |-> "parent",
      grantedToIdentities |-> <<[group |-> [id |-> <<"g", "1">>,
                                            displayName |-> <<"S", "t", "a", "f", "f">>]],
                                [user |-> [id |-> <<"u", "2">>,
                                           displayName |-> <<"B", "o", "b">>,
                                           email |-> <<"b", "@", "b">>]]>>],
     [id |-> <<"p", "4">>, roles |-> <<"read">>, link |-> "view"]}

\* The listings of at most MaxGrants entries.
PermissionListings == UNION {[1..n -> PermissionEntries] : n \in 0..MaxGrants}

\* One site with one drive that holds a folder and a file.
DriveItems ==
    <<[id |-> <<"R", "1">>, name |-> <<"D", "o", "c", "s">>, folder |-> TRUE],
      [id |-> <<"R", "2">>, name |-> <<"P", "l", "a", "n">>, folder |-> FALSE]>>

\* The (resource_id, principal_id) keys of the table and the number of its
\* rows.
RowKeys(table) ==
    [keys  |-> {<<r.resource_id, r.principal_id>> : r \in DOMAIN table},
     count |-> SumOver(DOMAIN table, table)]

\* How the upstream answers one call of process_single_resource: the
\* connection fails, or the drives request is answered and, after a 200,
\* the permission request. A status of 0 stands for no answer.
Answers ==
    {[drives |-> 0, perms |-> 0], [drives |-> 429, perms |-> 0], [drives |-> 403, perms |-> 0]}
    \cup {[drives |-> 200, perms |-> status] : status \in {200, 429, 404, 403}}

\* progress_tracker[progress_key] as the pass creates it.
NewProgress(total) ==
    [total |-> total, processed |-> 0, unique_found |-> 0, errors |-> 0, status |-> "running"]

\* The value of crawl.progress where the progress record is left out of the
\* state (SpecCrawl).
Untracked == [status |-> "untracked"]

\* An update of the record: "if progress_key in progress_tracker".
Track(progress, new) == IF progress \in {Untracked, NoDict} THEN progress ELSE new

\* A pass is running.
InPass == crawl.pc \in {"structure", "permissions"}

InitCrawl ==
    /\ sharepoint_permissions = <<>>
    /\ permission_baselines = <<>>
    /\ last_op = [op |-> "none"]
    /\ DiffIdle
    /\ permission_changes = <<>>
    /\ now = 0
    /\ NotifyIdle
    /\ PipelineIdle
    /\ classify = [pc |-> "idle"]
    /\ \E folder_permissions \in PermissionListings :
       \E file_permissions \in {<<>>, <<CHOOSE perm \in PermissionEntries : perm.id = <<"p", "3">>>>} :
          graph = [site  |-> [id |-> <<"S", "1">>, name |-> <<"H", "R">>],
                   items |-> DriveItems,
                   permissions |-> <<folder_permissions, file_permissions>>,
                   answers |-> Answers]
    /\ crawl = [pc |-> "idle", raised |-> None, structured |-> FALSE, rerun |-> FALSE,
                replaced |-> {}, replaced_now |-> {}, progress |-> Untracked,
                started_with |-> RowKeys(<<>>), next_item |-> 0,
                resources |-> <<>>, tasks |-> <<>>, batch_start |-> 0,
                total_processed |-> 0, unique_permissions_found |-> 0, errors |-> 0]

\* The call ends with the HTTPException of a token request that was not
\* answered 200.
AuthenticationFailed(call) == [crawl EXCEPT !.pc = "raised", !.raised = call]

\* collect_all_sharepoint_data_fast is called: the token is requested, and
\* with it the pass begins.
StartStructure ==
    /\ ~InPass
    /\ \E token_status \in {200, 401} :
          crawl' = IF token_status # 200
                   THEN AuthenticationFailed("collect_all_sharepoint_data_fast")
                   ELSE [crawl EXCEPT !.pc = "structure",
                                      !.raised = None,
                                      !.rerun = crawl.structured,
                                      !.started_with = RowKeys(sharepoint_permissions),
                                      !.next_item = 0]
    /\ UNCHANGED sharepoint_permissions

\* DELETE FROM sharepoint_permissions WHERE site_id = $1
DeleteSite(table, site_id) ==
    [r \in {x \in DOMAIN table : x.site_id # site_id} |-> table[r]]

\* refresh_site_data is called: the rows of the site are deleted, then the
\* token is requested, and with it the site and its drive are collected as
\* the structure pass collects them.
RefreshSiteData ==
    /\ ~InPass
    /\ sharepoint_permissions' = DeleteSite(sharepoint_permissions, graph.site.id)
    /\ \E token_status \in {200, 401} :
          crawl' = IF token_status # 200
                   THEN [AuthenticationFailed("refresh_site_data") EXCEPT
                            !.structured = FALSE, !.replaced = {}, !.replaced_now = {}]
                   ELSE [crawl EXCEPT !.pc = "structure",
                                      !.raised = None,
                                      !.structured = FALSE,
                                      !.rerun = FALSE,
                                      !.replaced = {},
                                      !.replaced_now = {},
                                      !.started_with = RowKeys(sharepoint_permissions'),
                                      !.next_item = 0]

\* The row of the site is upserted and its drive is listed.
StructureSite ==
    /\ crawl.pc = "structure"
    /\ crawl.next_item = 0
    /\ sharepoint_permissions' =
           Upsert(sharepoint_permissions,
                  StructureRow("site", graph.site, NoStr, graph.site.id),
                  {"resource_name", "collected_at"})
    /\ crawl' = [crawl EXCEPT !.next_item = 1]

\* process_folder: the row of the next item of the listing is upserted.
StructureItem ==
    /\ crawl.pc = "structure"
    /\ crawl.next_item \in DOMAIN graph.items
    /\ LET item == graph.items[crawl.next_item]
       IN sharepoint_permissions' =
              Upsert(sharepoint_permissions,
                     StructureRow(IF item.folder THEN "folder" ELSE "file", item, NoStr,
                                  graph.site.id),
                     {"resource_name", "parent_resource_id", "collected_at"})
    /\ crawl' = IF crawl.next_item = Len(graph.items)
                THEN [crawl EXCEPT !.pc = "structure_done", !.structured = TRUE]
                ELSE [crawl EXCEPT !.next_item = @ + 1]

\* process_resource_with_retry for one resource: while it runs, the attempt
\* it is at, the sleeps it has made and the exception it has caught last;
\* its result once it is over.
NewTask ==
    [attempt |-> 0, waits |-> <<>>, caught |-> None, result |-> [kind |-> "none"],
     answer |-> [drives |-> 0, perms |-> 0]]

Over(result) ==
    [attempt |-> 0, waits |-> <<>>, caught |-> None, result |-> result,
     answer |-> [drives |-> 0, perms |-> 0]]

\* The task with the answer of the upstream that ended it.
Answered(task, answer) ==
    IF task.result.kind = "none" THEN task ELSE [task EXCEPT !.answer = answer]

\* collect_sharepoint_permissions is called: the token is requested, the
\* resources are read and the progress record is set up. The first batch
\* begins: "processed" = batch_start = 0.
StartPermissions ==
    /\ ~InPass
    /\ LET resources == Resources(sharepoint_permissions)
       IN \E token_status \in {200, 401} :
            crawl' =
              IF token_status # 200
              THEN AuthenticationFailed("collect_sharepoint_permissions")
              ELSE [crawl EXCEPT !.pc = "permissions",
                                 !.raised = None,
                                 !.replaced = @ \cup crawl.replaced_now,
                                 !.replaced_now = {},
                                 !.started_with = RowKeys(sharepoint_permissions),
                                 !.resources = resources,
                                 !.tasks = [i \in DOMAIN resources |-> NewTask],
                                 !.progress = IF @ = Untracked THEN @
                                              ELSE NewProgress(Len(resources)),
                                 !.batch_start = 0,
                                 !.total_processed = 0,
                                 !.unique_permissions_found = 0,
                                 !.errors = 0]
    /\ UNCHANGED sharepoint_permissions

\* A plausible slip: the end of the batch is not cut at the last resource.
BatchEnd_uncut == crawl.batch_start + batch_size

\* batch_end = min(batch_start + batch_size, len(resources))
BatchEnd ==
    IF crawl.batch_start + batch_size < Len(crawl.resources)
    THEN crawl.batch_start + batch_size
    ELSE Len(crawl.resources)

\* A plausible slip: every resource after batch_start is handed to gather.
Batch_to_the_end == {i \in DOMAIN crawl.resources : i > crawl.batch_start}

\* The tasks of the batch that gather is waiting for.
Batch == {i \in DOMAIN crawl.resources :
             i > crawl.batch_start /\ i <= crawl.batch_start + batch_size}

\* What process_single_resource returns.
Result(processed, unique, error) ==
    [kind |-> "dict", processed |-> processed, unique |-> unique, error |-> error]

\* What process_single_resource raises.
Raised(message) == [kind |-> "exception", message |-> message]

\* A plausible slip: every exception is retried.
IsRateLimit_every_exception(message) == TRUE

\* "429" in str(e)
IsRateLimit(message) == message = "429 Rate Limited"

\* process_resource_with_retry after process_single_resource raised: it
\* sleeps and tries again, or lets the exception through.
AfterException(task, message) ==
    IF task.attempt < fetch_max_retries - 1 /\ IsRateLimit(message)
    THEN [task EXCEPT !.attempt = @ + 1,
                      !.waits = Append(@, (2 ^ task.attempt) * backoff_base),
                      !.caught = message]
    ELSE Over(Raised(message))

\* The index of the drive item a resource is.
ItemOf(resource) == CHOOSE k \in DOMAIN graph.items : graph.items[k].id = resource.resource_id

\* One call of process_single_resource for task i.
FetchResource(i) ==
    /\ crawl.pc = "permissions"
    /\ i \in Batch
    /\ crawl.tasks[i].result.kind = "none"
    /\ LET task     == crawl.tasks[i]
           resource == crawl.resources[i]
       IN \E answer \in graph.answers :
             IF answer.drives = 0
             THEN /\ crawl' = [crawl EXCEPT !.tasks[i] = Answered(AfterException(task, "Connection reset"), answer)]
                  /\ UNCHANGED sharepoint_permissions
             ELSE IF answer.drives = 429 \/ answer.perms = 429
             THEN /\ crawl' = [crawl EXCEPT !.tasks[i] = Answered(AfterException(task, "429 Rate Limited"), answer)]
                  /\ UNCHANGED sharepoint_permissions
             ELSE IF answer.drives # 200
             THEN /\ crawl' = [crawl EXCEPT !.tasks[i] = Answered(Over(Result(0, 0, 1)), answer)]
                  /\ UNCHANGED sharepoint_permissions
             ELSE IF answer.perms = 200
             THEN LET permissions == graph.permissions[ItemOf(resource)]
                  IN /\ sharepoint_permissions' =
                            ReplaceGrants(sharepoint_permissions, resource, permissions)
                     /\ crawl' = [crawl EXCEPT
                            !.tasks[i] =
                                Answered(Over(Result(1, IF SeenDirect(permissions,
                                                                      Len(permissions))
                                                        THEN 1 ELSE 0, 0)), answer),
                            !.replaced_now = @ \cup {resource.resource_id}]
             ELSE IF answer.perms = 404
             THEN /\ crawl' = [crawl EXCEPT !.tasks[i] = Answered(Over(Result(0, 0, 0)), answer)]
                  /\ UNCHANGED sharepoint_permissions
             ELSE /\ crawl' = [crawl EXCEPT !.tasks[i] = Answered(Over(Result(0, 0, 1)), answer)]
                  /\ UNCHANGED sharepoint_permissions

\* gather has the results of the batch: the statistics and the progress
\* record are updated and the next batch begins ("processed" = batch_start,
\* the value it has).
GatherBatch ==
    /\ crawl.pc = "permissions"
    /\ Batch # {}
    /\ \A i \in Batch : crawl.tasks[i].result.kind # "none"
    /\ LET result(i) == crawl.tasks[i].result
           processed == SumOver(Batch, [i \in Batch |->
                            IF result(i).kind = "dict" THEN result(i).processed ELSE 0])
           unique    == SumOver(Batch, [i \in Batch |->
                            IF result(i).kind = "dict" THEN result(i).unique ELSE 0])
           error     == SumOver(Batch, [i \in Batch |->
                            IF result(i).kind = "dict" THEN result(i).error ELSE 1])
       IN crawl' = [crawl EXCEPT
              !.total_processed = @ + processed,
              !.unique_permissions_found = @ + unique,
              !.errors = @ + error,
              !.progress = Track(@, [@ EXCEPT
                               !.processed = BatchEnd,
                               !.unique_found = crawl.unique_permissions_found + unique,
                               !.errors = crawl.errors + error]),
              !.batch_start = @ + batch_size]
    /\ UNCHANGED sharepoint_permissions

\* The loop over the batches is over: the progress record is completed and
\* the statistics are returned.
FinishPermissions ==
    /\ crawl.pc = "permissions"
    /\ Batch = {}
    /\ crawl' = [crawl EXCEPT !.pc = "permissions_done",
                              !.progress = Track(@, [@ EXCEPT
                                               !.status = "completed",
                                               !.processed = Len(crawl.resources)]),
                              !.resources = <<>>,
                              !.tasks = <<>>,
                              !.batch_start = 0,
                              !.total_processed = 0,
                              !.unique_permissions_found = 0,
                              !.errors = 0]
    /\ UNCHANGED sharepoint_permissions

notCrawlVars ==
    <<diffVars, permission_changes, permission_baselines, last_op, now, notifyVars,
      pipelineVars, graph, classify>>

CrawlStartStructure == StartStructure /\ UNCHANGED notCrawlVars

CrawlRefreshSiteData == RefreshSiteData /\ UNCHANGED notCrawlVars

CrawlStructureSite == StructureSite /\ UNCHANGED notCrawlVars

CrawlStructureItem == StructureItem /\ UNCHANGED notCrawlVars

CrawlStartPermissions == StartPermissions /\ UNCHANGED notCrawlVars

CrawlFetchResource == \E i \in DOMAIN crawl.tasks : FetchResource(i) /\ UNCHANGED notCrawlVars

CrawlGatherBatch == GatherBatch /\ UNCHANGED notCrawlVars

CrawlFinishPermissions == FinishPermissions /\ UNCHANGED notCrawlVars

NextCrawl ==
    \/ CrawlStartStructure
    \/ CrawlRefreshSiteData
    \/ CrawlStructureSite
    \/ CrawlStructureItem
    \/ CrawlStartPermissions
    \/ CrawlFetchResource
    \/ CrawlGatherBatch
    \/ CrawlFinishPermissions

(***************************************************************************)
(* SpecStats: the statistics of a baseline captured from the collector's   *)
(* rows (create_baseline, _calculate_baseline_statistics)                  *)
(***************************************************************************)

\* The rows fetch_all returns for the site, each as often as the table holds
\* it. The statistics are sets and counts, so the order of ORDER BY
\* resource_id, principal_id is not kept.
RECURSIVE TableRows(_)
TableRows(table) ==
    IF DOMAIN table = {} THEN <<>>
    ELSE LET r == CHOOSE x \in DOMAIN table : TRUE
         IN [i \in 1..table[r] |-> r]
            \o TableRows([x \in DOMAIN table \ {r} |-> table[x]])

\* _count_permission_levels
_count_permission_levels(permissions) ==
    [level \in {permissions[i].permission_level : i \in DOMAIN permissions} |->
        Cardinality({i \in DOMAIN permissions : permissions[i].permission_level = level})]

\* A plausible slip: the types compared as the collector writes them.
CountedAs_lowercase(perm, principal_type) ==
    \/ principal_type = "User" /\ perm.principal_type = "user"
    \/ principal_type = "Group" /\ perm.principal_type = "group"

\* perm.get('principal_type') == 'User', == 'Group': the comparison of str
\* distinguishes upper and lower case.
CountedAs(perm, principal_type) == perm.principal_type = principal_type

\* _calculate_baseline_statistics
_calculate_baseline_statistics(permissions) ==
    LET perms == {permissions[i] : i \in DOMAIN permissions}
    IN IF permissions = <<>>
       THEN [total_permissions |-> 0, unique_resources |-> 0, unique_principals |-> 0,
             unique_users |-> 0, unique_groups |-> 0, broken_inheritance_count |-> 0]
       ELSE [total_permissions |-> Len(permissions),
             unique_resources  |-> Cardinality({perm.resource_id : perm \in perms}),
             unique_principals |-> Cardinality({perm.principal_id : perm \in perms}),
             unique_users      |->
                 Cardinality({perm.principal_id : perm \in {p \in perms : CountedAs(p, "User")}}),
             unique_groups     |->
                 Cardinality({perm.principal_id : perm \in {p \in perms : CountedAs(p, "Group")}}),
             broken_inheritance_count |->
                 Cardinality({perm.resource_id : perm \in {p \in perms : p.has_broken_inheritance}}),
             permission_levels |-> _count_permission_levels(permissions)]

\* The table with the structure rows of the drive items from the k-th on.
RECURSIVE StructuredFrom(_, _, _)
StructuredFrom(table, items, k) ==
    IF k > Len(items) THEN table
    ELSE StructuredFrom(
             Upsert(table,
                    StructureRow(IF items[k].folder THEN "folder" ELSE "file",
                                 items[k], NoStr, <<"S", "1">>),
                    {"resource_name", "parent_resource_id", "collected_at"}),
             items, k + 1)

\* The table after the structure pass over site S1 with the given drive items.
Structured(items) ==
    StructuredFrom(InsertRow(<<>>, StructureRow("site", [id |-> <<"S", "1">>,
                                                          name |-> <<"H", "R">>],
                                                NoStr, <<"S", "1">>)),
                   items, 1)

InitStats ==
    /\ sharepoint_permissions = Structured(DriveItems)
    /\ permission_baselines = <<>>
    /\ last_op = [op |-> "none"]
    /\ DiffIdle
    /\ permission_changes = <<>>
    /\ now = 0
    /\ NotifyIdle
    /\ PipelineIdle
    /\ CrawlIdle

\* The permission pass has the listing of a resource and replaces its grants.
StatsReplaceGrants ==
    /\ \E i \in DOMAIN Resources(sharepoint_permissions), permissions \in PermissionListings :
          sharepoint_permissions' =
              ReplaceGrants(sharepoint_permissions, Resources(sharepoint_permissions)[i],
                            permissions)
    /\ last_op' = [op |-> "collect_sharepoint_permissions"]
    /\ UNCHANGED <<diffVars, permission_changes, permission_baselines, now, notifyVars,
                   pipelineVars, crawlVars>>

\* create_baseline up to the statistics it returns with the baseline: the
\* payload is the rows of the site, and the statistics are computed from it.
StatsCreateBaseline ==
    /\ DOMAIN sharepoint_permissions # {}
    /\ last_op' = [op |-> "create_baseline",
                   statistics |->
                       _calculate_baseline_statistics(TableRows(sharepoint_permissions))]
    /\ UNCHANGED <<diffVars, permission_changes, sharepoint_permissions, permission_baselines,
                   now, notifyVars, pipelineVars, crawlVars>>

NextStats ==
    \/ StatsReplaceGrants
    \/ StatsCreateBaseline

(***************************************************************************)
(* SpecBatch: one permission pass over more resources than a batch holds   *)
(***************************************************************************)

\* The files of the drive.
MaxResources == 6

\* The files f1, f2, ... of one drive.
BatchItems ==
    [k \in 1..MaxResources |->
        [id |-> <<"F", Base64Alphabet[53 + k]>>, name |-> <<"f", Base64Alphabet[53 + k]>>,
         folder |-> FALSE]]

\* The structure pass has run; every file has the same listing, and the
\* upstream answers a request with 200 or with the rate-limit signal.
InitBatch ==
    /\ permission_baselines = <<>>
    /\ last_op = [op |-> "none"]
    /\ DiffIdle
    /\ permission_changes = <<>>
    /\ now = 0
    /\ NotifyIdle
    /\ PipelineIdle
    /\ classify = [pc |-> "idle"]
    /\ \E permissions \in {<<>>, <<CHOOSE perm \in PermissionEntries : perm.id = <<"p", "3">>>>} :
          graph = [site  |-> [id |-> <<"S", "1">>, name |-> <<"H", "R">>],
                   items |-> BatchItems,
                   permissions |-> [k \in 1..MaxResources |-> permissions],
                   answers |-> {[drives |-> 200, perms |-> 200], [drives |-> 429, perms |-> 0]}]
    /\ sharepoint_permissions = Structured(BatchItems)
    /\ crawl = [pc |-> "idle", raised |-> None, structured |-> TRUE, rerun |-> FALSE,
                replaced |-> {}, replaced_now |-> {}, progress |-> NoDict,
                started_with |-> RowKeys(Structured(BatchItems)), next_item |-> 0,
                resources |-> <<>>, tasks |-> <<>>, batch_start |-> 0,
                total_processed |-> 0, unique_permissions_found |-> 0, errors |-> 0]

\* cleanup_progress: five minutes after the pass the record is deleted.
CleanupProgress ==
    /\ crawl.pc = "permissions_done"
    /\ crawl.progress # NoDict
    /\ crawl' = [crawl EXCEPT !.progress = NoDict]
    /\ UNCHANGED sharepoint_permissions

\* The pass is called once, and again if the token request failed.
BatchStartPermissions ==
    /\ crawl.pc \in {"idle", "raised"}
    /\ StartPermissions
    /\ UNCHANGED notCrawlVars

BatchCleanupProgress == CleanupProgress /\ UNCHANGED notCrawlVars

NextBatch ==
    \/ BatchStartPermissions
    \/ CrawlFetchResource
    \/ CrawlGatherBatch
    \/ CrawlFinishPermissions
    \/ BatchCleanupProgress

(***************************************************************************)
(* SpecTree: collect_drive_items_fast over a tree of folders               *)
(***************************************************************************)

\* if depth > 10: return
max_depth == 10

\* for i in range(0, len(folder_tasks), 5)
folder_batch_size == 5

\* The folders nested in one another, the last of them below max_depth.
ChainLength == 12

\* folder_id of the root of the drive
Root == <<"r", "o", "o", "t">>

ChainId(k) == <<"C", Base64Alphabet[k]>>

FolderItem(id) == [id |-> id, name |-> id, folder |-> TRUE]

\* The drive: the root holds the folders CA and B and a file; CA holds CB
\* and two more folders, B holds one folder more than a batch, and CB
\* holds CC, CC holds CD and so on.
TreeChildren(folder_id) ==
    IF folder_id = Root
    THEN <<FolderItem(ChainId(1)), FolderItem(<<"B">>),
           [id |-> <<"P">>, name |-> <<"P", "l", "a", "n">>, folder |-> FALSE]>>
    ELSE IF folder_id = ChainId(1)
    THEN <<FolderItem(ChainId(2)), FolderItem(<<"A", "2">>), FolderItem(<<"A", "3">>)>>
    ELSE IF folder_id = <<"B">>
    THEN [n \in 1..(folder_batch_size + 1) |-> FolderItem(<<"B", Base64Alphabet[53 + n]>>)]
    ELSE IF \E k \in 2..(ChainLength - 1) : folder_id = ChainId(k)
    THEN <<FolderItem(ChainId((CHOOSE k \in 2..(ChainLength - 1) : folder_id = ChainId(k)) + 1))>>
    ELSE <<>>

TreeIds ==
    {Root, <<"B">>, <<"A", "2">>, <<"A", "3">>}
    \cup {<<"B", Base64Alphabet[53 + n]>> : n \in 1..(folder_batch_size + 1)}
    \cup {ChainId(k) : k \in 1..ChainLength}

InitTree ==
    /\ sharepoint_permissions =
           InsertRow(<<>>, StructureRow("site", [id |-> <<"S", "1">>, name |-> <<"H", "R">>],
                                        NoStr, <<"S", "1">>))
    /\ permission_baselines = <<>>
    /\ last_op = [op |-> "none"]
    /\ DiffIdle
    /\ permission_changes = <<>>
    /\ now = 0
    /\ NotifyIdle
    /\ PipelineIdle
    /\ classify = [pc |-> "idle"]
    /\ graph = [site |-> [id |-> <<"S", "1">>, name |-> <<"H", "R">>],
                children |-> [folder_id \in TreeIds |-> TreeChildren(folder_id)]]
    /\ crawl = [pc |-> "idle", tasks |-> <<>>]

\* A plausible slip: the test is made against a depth that is never reached.
TooDeep_never(depth) == FALSE

\* if depth > 10
TooDeep(depth) == depth > max_depth

\* process_folder(folder_id, parent_id, depth) begins to run: it returns at
\* once or requests the children of the folder.
Begun(depth) ==
    [depth |-> depth, phase |-> IF TooDeep(depth) THEN "done" ELSE "listing",
     folder_tasks |-> <<>>, i |-> 0]

\* The coroutine folder_tasks.append has created and no gather has started.
Queued(depth) == [depth |-> depth, phase |-> "queued", folder_tasks |-> <<>>, i |-> 0]

\* folder_tasks[i:i+5]
FolderBatch(folder_tasks, i) ==
    {folder_tasks[n] : n \in {m \in DOMAIN folder_tasks : m > i /\ m <= i + folder_batch_size}}

\* The tasks with those of a batch handed to gather.
Gathered(tasks, batch) ==
    [f \in DOMAIN tasks |-> IF f \in batch THEN Begun(tasks[f].depth) ELSE tasks[f]]

\* The rows of the items of a page, each upserted with its parent.
RECURSIVE UpsertItems(_, _, _, _)
UpsertItems(table, items, folder_id, k) ==
    IF k > Len(items) THEN table
    ELSE UpsertItems(
             Upsert(table,
                    StructureRow(IF items[k].folder THEN "folder" ELSE "file", items[k],
                                 IF folder_id = Root THEN NoStr ELSE folder_id,
                                 graph.site.id),
                    {"resource_name", "parent_resource_id", "collected_at"}),
             items, folder_id, k + 1)

\* The ids of the folders among the items, in their order.
RECURSIVE SubFolders(_, _)
SubFolders(items, k) ==
    IF k > Len(items) THEN <<>>
    ELSE (IF items[k].folder THEN <<items[k].id>> ELSE <<>>) \o SubFolders(items, k + 1)

\* collect_drive_items_fast is called: process_folder('root', site_id).
StartTree ==
    /\ crawl.pc = "idle"
    /\ crawl' = [pc |-> "tree", tasks |-> [f \in {Root} |-> Begun(0)]]
    /\ UNCHANGED sharepoint_permissions

\* The request for the children of a folder is answered. Any status but
\* 200 ends the folder; with 200 the items are upserted, a coroutine is
\* created for each folder among them, and the first batch is gathered.
ListFolder(folder_id) ==
    /\ crawl.pc = "tree"
    /\ folder_id \in DOMAIN crawl.tasks
    /\ crawl.tasks[folder_id].phase = "listing"
    /\ \E status \in {200, 404} :
          IF status # 200
          THEN /\ crawl' = [crawl EXCEPT !.tasks[folder_id].phase = "done"]
               /\ UNCHANGED sharepoint_permissions
          ELSE LET items        == graph.children[folder_id]
                   folder_tasks == SubFolders(items, 1)
                   created      ==
                       [f \in DOMAIN crawl.tasks \cup {folder_tasks[n] : n \in DOMAIN folder_tasks} |->
                           IF f \in DOMAIN crawl.tasks THEN crawl.tasks[f]
                           ELSE Queued(crawl.tasks[folder_id].depth + 1)]
                   gathered     == Gathered(created, FolderBatch(folder_tasks, 0))
               IN /\ sharepoint_permissions' =
                         UpsertItems(sharepoint_permissions, items, folder_id, 1)
                  /\ crawl' = [crawl EXCEPT !.tasks =
                         [gathered EXCEPT ![folder_id] =
                             [@ EXCEPT !.phase = IF folder_tasks = <<>> THEN "done"
                                                 ELSE "gathering",
                                       !.folder_tasks = folder_tasks]]]

\* gather has the results of a batch of a folder: the next batch is
\* gathered, or the folder is over.
GatherFolders(folder_id) ==
    /\ crawl.pc = "tree"
    /\ folder_id \in DOMAIN crawl.tasks
    /\ crawl.tasks[folder_id].phase = "gathering"
    /\ LET task == crawl.tasks[folder_id]
           next == task.i + folder_batch_size
       IN /\ \A f \in FolderBatch(task.folder_tasks, task.i) : crawl.tasks[f].phase = "done"
          /\ crawl' = [crawl EXCEPT !.tasks =
                 [Gathered(crawl.tasks, FolderBatch(task.folder_tasks, next)) EXCEPT
                     ![folder_id] =
                         [@ EXCEPT !.i = next,
                                   !.phase = IF next >= Len(task.folder_tasks) THEN "done"
                                             ELSE "gathering"]]]
    /\ UNCHANGED sharepoint_permissions

\* process_folder('root', ...) is over: the counts are returned.
FinishTree ==
    /\ crawl.pc = "tree"
    /\ crawl.tasks[Root].phase = "done"
    /\ crawl' = [crawl EXCEPT !.pc = "tree_done"]
    /\ UNCHANGED sharepoint_permissions

TreeStart == StartTree /\ UNCHANGED notCrawlVars

TreeListFolder == \E folder_id \in TreeIds : ListFolder(folder_id) /\ UNCHANGED notCrawlVars

TreeGatherFolders == \E folder_id \in TreeIds : GatherFolders(folder_id) /\ UNCHANGED notCrawlVars

TreeFinish == FinishTree /\ UNCHANGED notCrawlVars

NextTree ==
    \/ TreeStart
    \/ TreeListFolder
    \/ TreeGatherFolders
    \/ TreeFinish

vars == <<diffVars, permission_changes, baselineVars, now, notifyVars, pipelineVars, crawlVars>>

SpecDiff == InitDiff /\ [][NextDiff]_vars

Spec == Init /\ [][Next]_vars

SpecLedger == InitLedger /\ [][NextLedger]_vars

SpecNotify == InitNotify /\ [][NextNotify]_vars

\* One run of the dispatcher takes its next step: the coroutine of
\* send_pending_notifications is awaited to its end by its caller.
RunStep(r) ==
    /\ \/ SelectNotifications(r)
       \/ MarkSending(r)
       \/ Transport(r)
       \/ MarkSent(r)
       \/ MarkFailed(r)
    /\ UNCHANGED notNotifyVars

\* The dispatcher under its scheduling: the scheduler's job fires again at every
\* interval, a started run is awaited to its end, and time passes.
SpecNotifyLive ==
    /\ InitNotify
    /\ [][NextNotify]_vars
    /\ WF_vars(NotifyProcess)
    /\ \A r \in Runs : WF_vars(RunStep(r))
    /\ WF_vars(NotifyClock)

SpecDetect == InitDetect /\ [][NextDetect]_vars

SpecFrame == InitFrame /\ [][NextFrame]_vars

SpecClassify == InitClassify /\ [][NextClassify]_vars

SpecCrawl == InitCrawl /\ [][NextCrawl]_vars

SpecStats == InitStats /\ [][NextStats]_vars

SpecBatch == InitBatch /\ [][NextBatch]_vars

SpecTree == InitTree /\ [][NextTree]_vars

(***************************************************************************)
(* Properties of the diff engine and of _record_changes (SpecDiff)         *)
(***************************************************************************)

Range(seq) == {seq[i] : i \in DOMAIN seq}

\* The key of a record as the pair (resource_id, principal_id).
PairOf(x) == <<x.resource_id, x.principal_id>>

PairsOf(perms) == {PairOf(x) : x \in Range(perms)}

StringKeysOf(perms) == {x.resource_id \o "|" \o x.principal_id : x \in Range(perms)}

Compared == diff_pc \in {"compared", "recorded"}

\* C4 (diff identity): comparing a snapshot with itself gives added_count = 0,
\* removed_count = 0 and modified_count = 0, and three empty itemized lists.
C4_DiffIdentity ==
    (Compared /\ baseline_perms = current_perms) =>
        /\ comparison.summary.added_count = 0
        /\ comparison.summary.removed_count = 0
        /\ comparison.summary.modified_count = 0
        /\ comparison.added_permissions = <<>>
        /\ comparison.removed_permissions = <<>>
        /\ comparison.modified_permissions = <<>>

C4_Witness ==
    /\ Compared
    /\ baseline_perms = current_perms
    /\ Len(baseline_perms) = 3

\* C5 (diff partition): unchanged_count = |common keys| - modified_count, and
\* the four counts add up to the number of keys of baseline and current
\* together, a key being resource_id|principal_id.
C5_DiffPartition ==
    Compared =>
        LET s  == comparison.summary
            bk == StringKeysOf(baseline_perms)
            ck == StringKeysOf(current_perms)
        IN /\ s.unchanged_count = Cardinality(bk \cap ck) - s.modified_count
           /\ s.added_count + s.removed_count + s.modified_count + s.unchanged_count
                = Cardinality(bk \cup ck)
           /\ s.added_count = Cardinality(ck \ bk)
           /\ s.removed_count = Cardinality(bk \ ck)
           /\ s.unchanged_count >= 0

C5_Witness ==
    /\ Compared
    /\ comparison.summary.added_count = 1
    /\ comparison.summary.removed_count = 1
    /\ comparison.summary.modified_count = 1
    /\ Cardinality(StringKeysOf(baseline_perms) \cup StringKeysOf(current_perms)) = 3

\* The row of a snapshot that has the given (resource_id, principal_id).
RowAt(perms, pair) == CHOOSE x \in Range(perms) : PairOf(x) = pair

\* The common pairs whose permission_level or has_broken_inheritance differs.
DifferingPairs ==
    {k \in PairsOf(baseline_perms) \cap PairsOf(current_perms) :
        \/ RowAt(baseline_perms, k).permission_level
             # RowAt(current_perms, k).permission_level
        \/ RowAt(baseline_perms, k).has_broken_inheritance
             # RowAt(current_perms, k).has_broken_inheritance}

\* C6 (diff sets): added is exactly the current rows whose (resource_id,
\* principal_id) is not in the baseline, removed exactly the baseline rows whose
\* pair is not in the current rows, modified exactly the common pairs whose
\* permission_level or has_broken_inheritance differs; a common pair with both
\* fields equal is in none of the lists, whatever else differs.
C6_DiffSets ==
    Compared =>
        LET bp == PairsOf(baseline_perms)
            cp == PairsOf(current_perms)
            a  == comparison.added_permissions
            r  == comparison.removed_permissions
            m  == comparison.modified_permissions
        IN /\ Range(a) = {x \in Range(current_perms) : PairOf(x) \notin bp}
           /\ Range(r) = {x \in Range(baseline_perms) : PairOf(x) \notin cp}
           /\ PairsOf(m) = DifferingPairs
           /\ Len(a) = Cardinality(PairsOf(a))
           /\ Len(r) = Cardinality(PairsOf(r))
           /\ Len(m) = Cardinality(PairsOf(m))
           /\ \A i \in DOMAIN m :
                /\ m[i].old_permission_level
                     = RowAt(baseline_perms, PairOf(m[i])).permission_level
                /\ m[i].new_permission_level
                     = RowAt(current_perms, PairOf(m[i])).permission_level
                /\ m[i].old_inheritance
                     = RowAt(baseline_perms, PairOf(m[i])).has_broken_inheritance
                /\ m[i].new_inheritance
                     = RowAt(current_perms, PairOf(m[i])).has_broken_inheritance

\* A common pair that differs in its principal_name only, beside an added and
\* a modified one.
C6_Witness ==
    /\ Compared
    /\ Len(comparison.added_permissions) = 1
    /\ Len(comparison.modified_permissions) = 1
    /\ \E k \in PairsOf(baseline_perms) \cap PairsOf(current_perms) :
          /\ k \notin DifferingPairs
          /\ RowAt(baseline_perms, k) # RowAt(current_perms, k)
          /\ k \notin PairsOf(comparison.modified_permissions)

\* The ledger rows that come from the loop over modified_permissions: both
\* old_permission and new_permission are given.
ModifiedRows ==
    {i \in DOMAIN permission_changes :
        /\ Truthy(permission_changes[i].old_permission)
        /\ Truthy(permission_changes[i].new_permission)}

\* The modified items whose only difference is the flag, going from `old` to `new`.
FlagOnlyItems(old, new) ==
    {i \in DOMAIN comparison.modified_permissions :
        LET m == comparison.modified_permissions[i]
        IN /\ m.old_permission_level = m.new_permission_level
           /\ m.old_inheritance = old
           /\ m.new_inheritance = new}

FlagOnlyRows(old, new, type) ==
    {i \in ModifiedRows :
        LET c == permission_changes[i]
        IN /\ c.old_permission.permission_level = c.new_permission.permission_level
           /\ c.old_permission.has_broken_inheritance = old
           /\ c.new_permission.has_broken_inheritance = new
           /\ c.change_type = type}

\* C7 (inheritance refinement): a modified pair whose only difference is
\* has_broken_inheritance is written as inheritance_broken when the flag went
\* false -> true and as inheritance_restored when it went true -> false, never
\* as 'modified'; when no INSERT raised there is one such row per pair.
C7_InheritanceRefinement ==
    diff_pc = "recorded" =>
        /\ \A i \in ModifiedRows :
             LET c == permission_changes[i]
             IN (c.old_permission.permission_level = c.new_permission.permission_level) =>
                    c.change_type =
                        IF c.new_permission.has_broken_inheritance
                        THEN "inheritance_broken" ELSE "inheritance_restored"
        /\ insert_failed = {} =>
             /\ Cardinality(FlagOnlyRows(FALSE, TRUE, "inheritance_broken"))
                  = Cardinality(FlagOnlyItems(FALSE, TRUE))
             /\ Cardinality(FlagOnlyRows(TRUE, FALSE, "inheritance_restored"))
                  = Cardinality(FlagOnlyItems(TRUE, FALSE))

C7_Witness ==
    /\ diff_pc = "recorded"
    /\ FlagOnlyRows(FALSE, TRUE, "inheritance_broken") # {}
    /\ FlagOnlyRows(TRUE, FALSE, "inheritance_restored") # {}

\* C8 as stated: every modified pair whose permission_level differs is written
\* with change_type = modified, whether or not the flag differs as well.
C8_LevelChangeIsModified ==
    diff_pc = "recorded" =>
        \A i \in ModifiedRows :
            LET c == permission_changes[i]
            IN (c.old_permission.permission_level # c.new_permission.permission_level) =>
                    c.change_type = "modified"

\* C8 as amended: a modified pair whose permission_level differs is written as
\* 'modified' exactly when has_broken_inheritance is the same on both sides;
\* when the flag differs too, the row is inheritance_broken (flag now true) or
\* inheritance_restored (flag now false).
C8_RefinementWheneverFlagDiffers ==
    diff_pc = "recorded" =>
        \A i \in ModifiedRows :
            LET c == permission_changes[i]
                o == c.old_permission
                n == c.new_permission
            IN (o.permission_level # n.permission_level) =>
                    c.change_type =
                        IF o.has_broken_inheritance = n.has_broken_inheritance
                        THEN "modified"
                        ELSE IF n.has_broken_inheritance
                             THEN "inheritance_broken" ELSE "inheritance_restored"

\* Both fields differ and the row is inheritance_broken; another row differs in
\* the level only and is 'modified'.
C8_Witness ==
    /\ diff_pc = "recorded"
    /\ \E i \in ModifiedRows :
          LET c == permission_changes[i]
          IN /\ c.old_permission.permission_level # c.new_permission.permission_level
             /\ ~c.old_permission.has_broken_inheritance
             /\ c.new_permission.has_broken_inheritance
             /\ c.change_type = "inheritance_broken"
    /\ \E i \in ModifiedRows :
          LET c == permission_changes[i]
          IN /\ c.old_permission.permission_level # c.new_permission.permission_level
             /\ c.old_permission.has_broken_inheritance
                  = c.new_permission.has_broken_inheritance
             /\ c.change_type = "modified"

(***************************************************************************)
(* Properties of the baseline manager (Spec)                               *)
(***************************************************************************)

NoRowsOf(site) ==
    \A k \in DOMAIN StoreKeys :
        StoreKeys[k].site_id = site => sharepoint_permissions[k] = Absent

\* C2 (baseline exclusivity): after any sequence of create_baseline,
\* activate_baseline, deactivate_baseline and delete_baseline calls every site
\* has at most one active baseline, and a create_baseline with set_as_active
\* leaves the new baseline as the only active one of its site.
C2_BaselineExclusivity ==
    /\ \A site \in Sites : Cardinality(ActiveOf(permission_baselines, site)) <= 1
    /\ (/\ last_op.op = "create_baseline"
        /\ last_op.result = "ok"
        /\ last_op.set_as_active)
         => ActiveOf(permission_baselines, last_op.site_id) = {last_op.id}

\* create_baseline(set_as_active = true) has just run on a site that had an
\* active baseline.
C2_Witness ==
    /\ last_op.op = "create_baseline"
    /\ last_op.result = "ok"
    /\ last_op.set_as_active
    /\ last_op.prior_active # {}
    /\ ActiveOf(permission_baselines, last_op.site_id) = {last_op.id}

\* C3 (activation post-condition and frame): activate_baseline(B2) ends with
\* B2 active and every other baseline of B2's site inactive, and leaves every
\* baseline of every other site as it was.
C3_ActivationFrame ==
    [][(last_op'.op = "activate_baseline" /\ last_op'.result = "ok") =>
          LET id == last_op'.id
          IN /\ DOMAIN permission_baselines' = DOMAIN permission_baselines
             /\ permission_baselines'[id].is_active
             /\ \A i \in LiveBaselines(permission_baselines) \ {id} :
                  IF permission_baselines[i].site_id = permission_baselines[id].site_id
                  THEN /\ ~permission_baselines'[i].is_active
                       /\ permission_baselines'[i].baseline_data
                            = permission_baselines[i].baseline_data
                  ELSE permission_baselines'[i] = permission_baselines[i]
      ]_vars

\* activate_baseline(B2) has just run while B1 of the same site was active and
\* a baseline of the other site is active.
C3_Witness ==
    /\ last_op.op = "activate_baseline"
    /\ last_op.result = "ok"
    /\ last_op.prior_active # {}
    /\ last_op.id \notin last_op.prior_active
    /\ \A i \in last_op.prior_active : ~permission_baselines[i].is_active
    /\ permission_baselines[last_op.id].is_active
    /\ \E i \in LiveBaselines(permission_baselines) :
          /\ permission_baselines[i].site_id # permission_baselines[last_op.id].site_id
          /\ permission_baselines[i].is_active

\* C9 (no data): create_baseline on a site without permission rows fails with
\* the no-data error; no baseline row is inserted and no is_active flag changes.
C9_CreateWithoutRowsFails ==
    [][(last_op'.op = "create_baseline" /\ NoRowsOf(last_op'.site_id)) =>
          /\ last_op'.result = "ValueError"
          /\ permission_baselines' = permission_baselines
      ]_vars

\* The call failed on a site that has an active baseline from earlier.
C9_Witness ==
    /\ last_op.op = "create_baseline"
    /\ last_op.result = "ValueError"
    /\ NoRowsOf(last_op.site_id)
    /\ ActiveOf(permission_baselines, last_op.site_id) # {}

(***************************************************************************)
(* Properties of the ledger (SpecLedger)                                   *)
(***************************************************************************)

\* C10 (mark_reviewed is idempotent on state): a call of mark_changes_reviewed
\* leaves every Change that is already reviewed as it is (reviewed_by,
\* reviewed_at and review_notes included), leaves every Change it does not name
\* as it is, and leaves every Change it names reviewed; so the same call made
\* again, by any reviewer with any notes at any later time, changes nothing.
C10_MarkReviewedIdempotent ==
    [][last_op'.op = "mark_changes_reviewed" =>
          /\ DOMAIN permission_changes' = DOMAIN permission_changes
          /\ \A i \in DOMAIN permission_changes :
                /\ permission_changes[i].reviewed =>
                       permission_changes'[i] = permission_changes[i]
                /\ i \notin last_op'.change_ids =>
                       permission_changes'[i] = permission_changes[i]
                /\ i \in last_op'.change_ids => permission_changes'[i].reviewed
          /\ \A by \in Reviewers, notes \in Notes :
                ReviewUpdate(permission_changes', last_op'.change_ids, by, notes,
                             now + TickMinutes)
                    = permission_changes'
      ]_vars

\* The call named a Change that another reviewer had reviewed earlier; the row
\* still carries the first review.
C10_Witness ==
    /\ last_op.op = "mark_changes_reviewed"
    /\ \E i \in DOMAIN permission_changes :
          /\ i \in last_op.change_ids
          /\ permission_changes[i].reviewed
          /\ permission_changes[i].reviewed_at < now
          /\ permission_changes[i].reviewed_by # last_op.reviewed_by

(***************************************************************************)
(* Properties of the notification dispatcher (SpecNotify)                  *)
(***************************************************************************)

\* A run has just taken its batch from the SELECT.
Selected(r) == runs[r].pc = "select" /\ runs'[r].pc = "mark_sending"

\* C1 as stated: the failure that brings a job's count of failures to
\* max_retries leaves it in status 'failed', and a job that has failed
\* max_retries times is not selected again.
C1_FailedAtMaxRetries ==
    [][/\ \A j \in DOMAIN notification_queue :
            (/\ notification_queue'[j].retry_count = notification_queue[j].retry_count + 1
             /\ notification_queue'[j].retry_count >= notification_queue[j].max_retries)
              => notification_queue'[j].status = "failed"
       /\ \A r \in Runs :
            Selected(r) =>
                \A i \in DOMAIN runs'[r].batch :
                    notification_queue[runs'[r].batch[i]].retry_count
                        < notification_queue[runs'[r].batch[i]].max_retries
      ]_vars

\* C1 as amended: the first max_retries recorded failures put the job back to
\* 'pending'; the recorded failure number max_retries + 1 puts it in status
\* 'failed'. A job is 'failed' only with retry_count > max_retries, a failed
\* job never becomes pending again, and no SELECT of send_pending_notifications
\* returns it again.
C1_FailedAfterMaxRetriesPlusOne ==
    [][/\ \A j \in DOMAIN notification_queue :
            LET old == notification_queue[j]
                new == notification_queue'[j]
            IN /\ new.retry_count = old.retry_count + 1 =>
                    new.status = IF old.retry_count + 1 > old.max_retries
                                 THEN "failed" ELSE "pending"
               /\ new.status = "failed" => new.retry_count > new.max_retries
               /\ old.status = "failed" => new.status # "pending"
               /\ new.retry_count >= old.retry_count
               /\ new.max_retries = old.max_retries
       /\ \A r \in Runs :
            Selected(r) =>
                \A i \in DOMAIN runs'[r].batch :
                    LET job == notification_queue[runs'[r].batch[i]]
                    IN /\ job.status = "pending"
                       /\ job.retry_count <= job.max_retries
      ]_vars

\* A job has failed for good after max_retries + 1 recorded failures; it is due
\* and every run that looked for work has left it alone.
C1_Witness ==
    /\ \A r \in Runs : runs[r].pc = "idle"
    /\ \E j \in DOMAIN notification_queue :
          /\ notification_queue[j].status = "failed"
          /\ notification_queue[j].retry_count = notification_queue[j].max_retries + 1
          /\ notification_queue[j].max_retries = MaxRetries
          /\ notification_queue[j].scheduled_for <= now

(***************************************************************************)
(* Properties of the review of the ledger (SpecLedger)                     *)
(***************************************************************************)

\* The Change rows a step switched from reviewed = false to reviewed = true.
SwitchedToReviewed ==
    {i \in DOMAIN permission_changes :
        /\ ~permission_changes[i].reviewed
        /\ permission_changes'[i].reviewed}

\* C11: the count mark_changes_reviewed returns is the number of Change rows
\* the call switched from reviewed = false to reviewed = true; ids already
\* reviewed or not in the ledger are not counted.
C11_CountIsRowsSwitched ==
    [][last_op'.op = "mark_changes_reviewed" =>
          last_op'.affected = Cardinality(SwitchedToReviewed)]_vars

(***************************************************************************)
(* Properties of the job state machine (SpecNotify)                        *)
(***************************************************************************)

\* The status changes the state machine of a NotificationJob allows.
JobTransitions ==
    {<<"pending", "sending">>, <<"sending", "sent">>,
     <<"sending", "pending">>, <<"sending", "failed">>}

\* C12: every status change of a job is pending->sending, sending->sent,
\* sending->pending or sending->failed, so that sent and failed are terminal;
\* a sending->pending step happens only while retry_count < max_retries,
\* adds exactly 1 to retry_count and sets scheduled_for to the time of the
\* failure plus 5 minutes.
C12_JobStateMachine ==
    [][\A j \in DOMAIN notification_queue :
          LET old == notification_queue[j]
              new == notification_queue'[j]
          IN /\ new.status # old.status =>
                    <<old.status, new.status>> \in JobTransitions
             /\ (old.status = "sending" /\ new.status = "pending") =>
                    /\ old.retry_count < old.max_retries
                    /\ new.retry_count = old.retry_count + 1
                    /\ new.scheduled_for = now + RetryDelayMinutes
      ]_vars

(***************************************************************************)
(* Properties of detection with notification (SpecDetect)                  *)
(***************************************************************************)

\* The step records a failed delivery of job j.
FailureRecorded(j) ==
    notification_queue'[j].retry_count = notification_queue[j].retry_count + 1

\* Two rows of the queue that differ at most in the retry state.
SameButRetryState(old, new) ==
    [new EXCEPT !.status = old.status,
                !.retry_count = old.retry_count,
                !.error_message = old.error_message,
                !.scheduled_for = old.scheduled_for] = old

\* _notify_changes is running for the site the detection has recorded.
InNotifyPhase == detection.pc \in {"create", "mark_notified"}

\* The step keeps every Change row, up to its notification_sent mark.
LedgerKept ==
    /\ Len(permission_changes') = Len(permission_changes)
    /\ \A c \in DOMAIN permission_changes :
          [permission_changes'[c] EXCEPT
              !.notification_sent = permission_changes[c].notification_sent]
            = permission_changes[c]

\* C13: a transport failure during detect_changes_for_site(notify = true)
\* does not propagate: the step in which the transport fails and the step that
\* records the failure leave the detection, the ledger, the baselines and
\* every other job alone, the recorded failure changes only the job's status,
\* retry_count, error_message and scheduled_for, and a detection that has
\* reached _notify_changes keeps its Change rows, never raises and returns
\* status changes_detected.
C13_TransportErrorsStayInQueue ==
    [][/\ \A r \in Runs :
            (runs[r].pc = "transport" /\ runs'[r].pc = "mark_failed") =>
                UNCHANGED <<notification_queue, permission_changes, detection,
                            permission_baselines, sharepoint_permissions>>
       /\ \A j \in DOMAIN notification_queue :
            FailureRecorded(j) =>
                /\ SameButRetryState(notification_queue[j], notification_queue'[j])
                /\ \A k \in DOMAIN notification_queue' :
                      k # j => /\ k \in DOMAIN notification_queue
                               /\ notification_queue'[k] = notification_queue[k]
                /\ UNCHANGED <<permission_changes, detection, permission_baselines,
                               sharepoint_permissions>>
       /\ InNotifyPhase =>
            /\ LedgerKept
            /\ detection'.pc # "raised"
            /\ detection'.results # detection.results =>
                  /\ Len(detection'.results) = Len(detection.results) + 1
                  /\ detection'.results[Len(detection'.results)].status = "changes_detected"
                  /\ detection'.results[Len(detection'.results)].site_id
                        = detection.sites[detection.i]
      ]_vars

\* detect_changes_for_site(notify = true) has returned changes_detected with
\* its Change row in the ledger, although the delivery of a job it created
\* failed and was put back for a retry.
C13_Witness ==
    /\ detection.pc = "done"
    /\ detection.mode = "site"
    /\ detection.notify
    /\ detection.results[1].status = "changes_detected"
    /\ permission_changes # <<>>
    /\ \E j \in DOMAIN notification_queue :
          /\ notification_queue[j].retry_count = 1
          /\ notification_queue[j].status = "pending"
          /\ notification_queue[j].error_message # None
          /\ notification_queue[j].scheduled_for = now + RetryDelayMinutes

\* The recipients the notification of a site is meant for.
Eligible(site) ==
    {q \in DOMAIN notification_recipients :
        /\ notification_recipients[q].is_active
        /\ "permission_change" \in notification_recipients[q].notification_types
        /\ notification_recipients[q].site_id \in {site, None}}

\* The jobs of the queue made for a recipient about a site.
JobsFor(q, site) ==
    {j \in DOMAIN notification_queue :
        /\ notification_queue[j].recipient_email
              = notification_recipients[q].recipient_email
        /\ notification_queue[j].related_site_id = site}

\* The sites for which _notify_changes has run to its end.
NotifiedSites ==
    {detection.results[x].site_id :
        x \in {y \in DOMAIN detection.results :
                  /\ detection.results[y].status = "changes_detected"
                  /\ detection.results[y].notification_sent}}

JobsMatchRecipients ==
    /\ \A j \in DOMAIN notification_queue :
          \E q \in Eligible(notification_queue[j].related_site_id) :
              j \in JobsFor(q, notification_queue[j].related_site_id)
    /\ \A site \in Sites, q \in DOMAIN notification_recipients :
          Cardinality(JobsFor(q, site)) <= 1
    /\ detection.pc # "idle" =>
          /\ ~detection.notify => notification_queue = <<>>
          /\ \A site \in NotifiedSites : \A q \in Eligible(site) :
                Cardinality(JobsFor(q, site)) = 1
          /\ \A x \in DOMAIN detection.results :
                (/\ detection.results[x].status = "changes_detected"
                 /\ detection.results[x].notification_sent) =>
                    /\ detection.results[x].notification_result.recipients_count
                          = Cardinality(Eligible(detection.results[x].site_id))
                    /\ detection.results[x].notification_result.notifications_created
                          = Cardinality(Eligible(detection.results[x].site_id))

SitesWithActiveBaseline ==
    {site \in Sites : ActiveOf(permission_baselines, site) # {}}

\* The step keeps every Change row that was in the ledger.
LedgerRowsKept ==
    /\ Len(permission_changes') >= Len(permission_changes)
    /\ \A c \in DOMAIN permission_changes :
          [permission_changes'[c] EXCEPT
              !.notification_sent = permission_changes[c].notification_sent]
            = permission_changes[c]

\* C18: detect_all_sites returns one result per site with an active baseline,
\* in the order of the sites; a failure while a site is processed adds an
\* error entry for that site and nothing else, the loop goes on with the next
\* site, and no step of the run removes or rewrites a Change row.
C18_PartialSuccess ==
    [][(detection'.pc # "idle" /\ detection'.mode = "all") =>
          /\ LedgerRowsKept
          /\ Range(detection'.sites) = SitesWithActiveBaseline
          /\ Len(detection'.sites) = Cardinality(SitesWithActiveBaseline)
          /\ Len(detection'.results) <= Len(detection'.sites)
          /\ \A x \in DOMAIN detection'.results :
                detection'.results[x].site_id = detection'.sites[x]
          /\ detection'.pc = "done" =>
                Len(detection'.results) = Len(detection'.sites)
          /\ (detection.pc # "idle" /\ detection'.results # detection.results) =>
                /\ detection'.results =
                      Append(detection.results,
                             detection'.results[Len(detection'.results)])
                /\ detection.i < Len(detection.sites) =>
                      /\ detection'.pc = "detect"
                      /\ detection'.i = detection.i + 1
                /\ detection'.results[Len(detection'.results)].status = "error" =>
                      permission_changes' = permission_changes
      ]_vars

\* detect_all_sites has returned: the first site failed, the second site was
\* still processed and its Change row is in the ledger.
C18_Witness ==
    /\ detection.pc = "done"
    /\ detection.mode = "all"
    /\ Len(detection.results) = 2
    /\ detection.results[1].status = "error"
    /\ detection.results[2].status = "changes_detected"
    /\ \E c \in DOMAIN permission_changes :
          permission_changes[c].site_id = detection.results[2].site_id

(***************************************************************************)
(* Properties of baselines under collection and detection (SpecFrame)      *)
(***************************************************************************)

\* C19: the payload of a baseline is the site's snapshot rows at the time of
\* capture, and no collection, activate_baseline, deactivate_baseline,
\* compare_with_current or detect_changes_for_site step changes a baseline's
\* baseline_data or site_id: only is_active may change.
C19_BaselineImmutable ==
    /\ \A id \in DOMAIN permission_baselines :
          permission_baselines[id].baseline_data.permissions
              = SiteRows(sharepoint_permissions, permission_baselines[id].site_id)
    /\ [][\A id \in DOMAIN permission_baselines :
             /\ id \in DOMAIN permission_baselines'
             /\ [permission_baselines'[id] EXCEPT
                    !.is_active = permission_baselines[id].is_active]
                  = permission_baselines[id]
         ]_vars

\* The site's rows have moved away from the payload, a detection has recorded
\* the difference, and the baseline has just been activated again.
C19_Witness ==
    /\ last_op.op = "activate_baseline"
    /\ last_op.result = "ok"
    /\ permission_changes # <<>>
    /\ permission_baselines[1].is_active
    /\ permission_baselines[1].baseline_data.permissions
          # SiteRows(sharepoint_permissions, "S1")
    /\ permission_baselines[1].baseline_data.total_permissions = 1

(***************************************************************************)
(* C16: classification of a grantee typed 'user'                           *)
(***************************************************************************)

\* The grantee has been classified and is one with a 'user' facet.
UserStored == classify.pc = "stored" /\ "user" \in DOMAIN classify.grantee

\* The id of the grantee, read as base64, is the display name.
IdIsNameInBase64(user) ==
    LET decoded == Utf8Decode(b64decode(user.id \o <<"=", "=", "=">>))
    IN decoded # <<>> /\ decoded = Encode(user.displayName)

\* The display name holds a group keyword and the e-mail stored for the
\* grantee (its email, else its userPrincipalName) holds no address.
GroupNameWithoutEmail(user) ==
    /\ \E keyword \in group_keywords : Contains(user.displayName, keyword)
    /\ ~\E i \in DOMAIN classify.row.principal_email : classify.row.principal_email[i] = "@"

StoredAs(as_group) ==
    /\ classify.row.principal_type = (IF as_group THEN "group" ELSE "user")
    /\ classify.row.is_human = ~as_group

HumanIsUser ==
    classify.pc = "stored" /\ classify.row.is_human => classify.row.principal_type = "user"

\* C16 as stated: a 'user' grantee is stored as a group that is not human
\* when its id is the base64 of its display name or when its name holds a
\* group keyword and it has no usable e-mail, and as a human user otherwise;
\* is_human implies principal_type = user.
C16_ClassifiedAsStated ==
    /\ UserStored =>
          StoredAs(\/ IdIsNameInBase64(classify.grantee["user"])
                   \/ GroupNameWithoutEmail(classify.grantee["user"]))
    /\ HumanIsUser

\* C16: a 'user' grantee is stored as a group that is not human when its id
\* is longer than 10 characters and is the base64 of its display name, or
\* when its name holds a group keyword and it has no usable e-mail, and as a
\* human user otherwise; is_human implies principal_type = user.
C16_ClassifiedWithLongId ==
    /\ UserStored =>
          StoredAs(\/ /\ Len(classify.grantee["user"].id) > MinEncodedLength
                      /\ IdIsNameInBase64(classify.grantee["user"])
                   \/ GroupNameWithoutEmail(classify.grantee["user"]))
    /\ HumanIsUser

\* A grantee with an address whose long id is the base64 of its name is
\* stored as a group.
C16_Witness ==
    /\ UserStored
    /\ Len(classify.grantee["user"].id) > MinEncodedLength
    /\ IdIsNameInBase64(classify.grantee["user"])
    /\ ~GroupNameWithoutEmail(classify.grantee["user"])
    /\ classify.row.principal_type = "group"
    /\ ~classify.row.is_human

(***************************************************************************)
(* C14: a pass run again leaves the row set as it was                      *)
(***************************************************************************)

\* No (resource_id, principal_id) is the key of two rows.
KeyUnique ==
    RowKeys(sharepoint_permissions).count = Cardinality(RowKeys(sharepoint_permissions).keys)

\* A structure pass has ended that was not the first one.
StructureRerun == crawl.pc = "structure_done" /\ crawl.rerun

\* A permission pass has ended that replaced the grants of no resource but
\* of such as an earlier pass had replaced already.
PermissionsRerun == crawl.pc = "permissions_done" /\ crawl.replaced_now \subseteq crawl.replaced

\* C14: when the structure pass, or the permission pass, has run again
\* against the same upstream, the table holds as many rows as when the pass
\* began, under the same (resource_id, principal_id) keys, and never holds a
\* key twice.
C14_IdempotentCrawl ==
    /\ StructureRerun \/ PermissionsRerun =>
          RowKeys(sharepoint_permissions) = crawl.started_with
    /\ KeyUnique

\* The permission pass has replaced the grants of both resources for the
\* second time, and the folder has grant rows.
C14_Witness ==
    /\ PermissionsRerun
    /\ crawl.replaced_now = {<<"R", "1">>, <<"R", "2">>}
    /\ crawl.structured
    /\ \E r \in DOMAIN sharepoint_permissions :
          r.resource_id = <<"R", "1">> /\ r.permission_type # "structure"

(***************************************************************************)
(* C15: has_broken_inheritance is one value per resource                   *)
(***************************************************************************)

\* The listing upstream holds for a resource id has an entry without
\* inheritedFrom.
HasDirectGrant(resource_id) ==
    \E k \in DOMAIN graph.items :
        /\ graph.items[k].id = resource_id
        /\ \E j \in DOMAIN graph.permissions[k] :
              "inheritedFrom" \notin DOMAIN graph.permissions[k][j]

\* C15: once the permission pass has replaced the grants of a resource, the
\* structure row and every grant row of the resource carry the same
\* has_broken_inheritance, true iff the listing of the resource has an entry
\* without inheritedFrom, whatever the order of the listing.
C15_InheritanceFlagPerResource ==
    \A resource_id \in crawl.replaced \cup crawl.replaced_now :
        \A r \in DOMAIN sharepoint_permissions :
            r.resource_id = resource_id =>
                r.has_broken_inheritance = HasDirectGrant(resource_id)

(***************************************************************************)
(* C20: retry of a rate-limited resource                                   *)
(***************************************************************************)

\* Task i is running before and after the step.
StillRunning(i) ==
    /\ crawl.pc = "permissions" /\ crawl'.pc = "permissions"
    /\ i \in DOMAIN crawl'.tasks
    /\ crawl.tasks[i].result.kind = "none"
    /\ crawl'.tasks[i].result.kind = "none"

\* Task i ends in the step with the exception of a rate limit.
GivesUp(i) ==
    /\ crawl.pc = "permissions" /\ crawl'.pc = "permissions"
    /\ crawl.tasks[i].result.kind = "none"
    /\ crawl'.tasks[i].result = Raised("429 Rate Limited")

\* The tasks of the batch that count as an error.
Failed == {i \in Batch : \/ crawl.tasks[i].result.kind = "exception"
                         \/ /\ crawl.tasks[i].result.kind = "dict"
                            /\ crawl.tasks[i].result.error = 1}

\* C20: a resource of the permission pass is tried again only after a 429,
\* after a sleep of 5 s x 2^attempt; it is given up as rate-limited only
\* after 3 retries; a batch adds one error for each of its resources that
\* failed, the rate-limited ones included, and no more.
C20_RateLimitRetry ==
    [][/\ \A i \in DOMAIN crawl.tasks :
             /\ StillRunning(i) /\ crawl'.tasks[i] # crawl.tasks[i] =>
                   /\ crawl'.tasks[i].caught = "429 Rate Limited"
                   /\ crawl'.tasks[i].attempt = crawl.tasks[i].attempt + 1
                   /\ crawl'.tasks[i].waits =
                          Append(crawl.tasks[i].waits, 5 * (2 ^ crawl.tasks[i].attempt))
             /\ GivesUp(i) => Len(crawl.tasks[i].waits) = 3
       /\ crawl.pc = "permissions" /\ crawl'.pc = "permissions"
             /\ crawl'.batch_start # crawl.batch_start =>
                crawl'.errors = crawl.errors + Cardinality(Failed)
      ]_vars

\* The same without the number of retries: what holds of the code.
C20_RetryOnRateLimitOnly ==
    [][/\ \A i \in DOMAIN crawl.tasks :
             /\ StillRunning(i) /\ crawl'.tasks[i] # crawl.tasks[i] =>
                   /\ crawl'.tasks[i].caught = "429 Rate Limited"
                   /\ crawl'.tasks[i].attempt = crawl.tasks[i].attempt + 1
                   /\ crawl'.tasks[i].waits =
                          Append(crawl.tasks[i].waits, 5 * (2 ^ crawl.tasks[i].attempt))
             /\ GivesUp(i) => crawl.tasks[i].waits = <<5, 10>>
       /\ crawl.pc = "permissions" /\ crawl'.pc = "permissions"
             /\ crawl'.batch_start # crawl.batch_start =>
                crawl'.errors = crawl.errors + Cardinality(Failed)
      ]_vars

(***************************************************************************)
(* C30: a Change row names its resource and its principal                  *)
(***************************************************************************)

\* C30: every row _record_changes has written, whatever its change_type,
\* carries a resource_id and a principal_id that are not null and are the
\* key of a row of the baseline or of the current snapshot.
C30_ChangeRowIdentifiesItem ==
    \A i \in DOMAIN permission_changes :
        /\ permission_changes[i].resource_id # None
        /\ permission_changes[i].principal_id # None
        /\ \E k \in DOMAIN DiffKeys :
              /\ DiffKeys[k].resource_id = permission_changes[i].resource_id
              /\ DiffKeys[k].principal_id = permission_changes[i].principal_id

\* The same for the rows of added and removed items only: what holds of the
\* code.
C30_AddedAndRemovedIdentified ==
    \A i \in DOMAIN permission_changes :
        permission_changes[i].change_type \in {"added", "removed"} =>
            /\ permission_changes[i].resource_id # None
            /\ permission_changes[i].principal_id # None

(***************************************************************************)
(* C28: no job is delivered twice                                          *)
(***************************************************************************)

\* A run holds a job between its UPDATE to 'sending' and the UPDATE that
\* records the outcome.
Handling(r, j) ==
    /\ runs[r].pc \in {"transport", "mark_sent", "mark_failed"}
    /\ CurrentJob(r) = j

\* C28: no job is in the hands of both runs of send_pending_notifications
\* at once, and the transport has accepted every job at most once.
C28_NoDoubleDelivery ==
    \A j \in DOMAIN notification_queue :
        /\ ~(Handling("scheduler", j) /\ Handling("immediate", j))
        /\ delivered[j] <= 1

(***************************************************************************)
(* Termination of jobs under the recurring dispatch (SpecNotifyLive)       *)
(***************************************************************************)

Terminal(j) ==
    /\ j \in DOMAIN notification_queue
    /\ notification_queue[j].status \in {"sent", "failed"}

\* The job waits for a retry time the clock of the model never reaches.
BeyondClock(j) ==
    /\ j \in DOMAIN notification_queue
    /\ notification_queue[j].status = "pending"
    /\ now + TickMinutes > MaxTime

\* C29: with the transport configured and the dispatch recurring, every created
\* job eventually reaches status sent or failed, and no job stays in status
\* sending forever, also when the update recording a delivery failure fails.
C29_EveryJobTerminates ==
    \A j \in 1..MaxJobs :
        (smtp_configured /\ j \in DOMAIN notification_queue)
            ~> (Terminal(j) \/ BeyondClock(j))

\* A job left in status sending by a run that is over: no run handles it.
C29_Stranded ==
    \E j \in DOMAIN notification_queue :
        /\ notification_queue[j].status = "sending"
        /\ \A r \in Runs : runs[r].pc = "idle"

(***************************************************************************)
(* C27: the statistics of a baseline and its payload (SpecStats)           *)
(***************************************************************************)

\* The distinct values of a column among the rows of the table that satisfy
\* a condition.
Distinct(column, Cond(_)) ==
    Cardinality({r[column] : r \in {x \in DOMAIN sharepoint_permissions : Cond(x)}})

IsUser(r) == r.principal_type = "user"

IsGroup(r) == r.principal_type = "group"

BrokenInheritance(r) == r.has_broken_inheritance

Captured == last_op.op = "create_baseline"

\* C27: the statistics returned with a baseline captured from the rows of the
\* permission pass count the distinct principal_ids of type user as
\* unique_users, those of type group as unique_groups, and the distinct
\* resource_ids having a row with has_broken_inheritance as
\* broken_inheritance_count.
C27_StatisticsMatchPayload ==
    Captured =>
        /\ last_op.statistics.unique_users = Distinct("principal_id", IsUser)
        /\ last_op.statistics.unique_groups = Distinct("principal_id", IsGroup)
        /\ last_op.statistics.broken_inheritance_count = Distinct("resource_id", BrokenInheritance)

\* The counts that do not depend on principal_type match the payload, and no
\* principal of the collector's rows is counted as a user or as a group.
C27_CountsWithoutType ==
    Captured =>
        /\ last_op.statistics.broken_inheritance_count = Distinct("resource_id", BrokenInheritance)
        /\ last_op.statistics.unique_users = 0
        /\ last_op.statistics.unique_groups = 0

\* A baseline is captured of a table that holds a user and a group.
C27_CapturedUserAndGroup ==
    /\ Captured
    /\ Distinct("principal_id", IsUser) > 0
    /\ Distinct("principal_id", IsGroup) > 0

(***************************************************************************)
(* C21: a client error other than the rate limit (SpecCrawl)               *)
(***************************************************************************)

\* A status of the 4xx class that is not the rate-limit signal.
ClientError(status) == status \in 400..499 /\ status # 429

\* The call of process_single_resource that ends task i in the step got a
\* client error for the drives request or for the permission request.
EndsRefused(i) ==
    /\ crawl.pc = "permissions" /\ crawl'.pc = "permissions"
    /\ i \in DOMAIN crawl'.tasks
    /\ crawl.tasks[i].result.kind = "none"
    /\ crawl'.tasks[i].result.kind # "none"
    /\ \/ ClientError(crawl'.tasks[i].answer.drives)
       \/ ClientError(crawl'.tasks[i].answer.perms)

\* What results.append and the sums after gather add to the errors counter
\* for a finished task.
ErrorsAdded(task) == IF task.result.kind = "dict" THEN task.result.error ELSE 1

\* C21: when the drives request or the permission request of a resource is
\* answered with a 4xx status other than 429, the resource adds nothing to
\* the errors counter and the rows of the table stay as they were.
C21_ClientErrorIsNoError ==
    [][\A i \in DOMAIN crawl.tasks :
          EndsRefused(i) =>
              /\ ErrorsAdded(crawl'.tasks[i]) = 0
              /\ sharepoint_permissions' = sharepoint_permissions]_vars

\* Such an answer leaves the rows as they were, and a 404 of the permission
\* request adds nothing to the errors counter.
C21_RowsKeptNotFoundSkipped ==
    [][\A i \in DOMAIN crawl.tasks :
          EndsRefused(i) =>
              /\ sharepoint_permissions' = sharepoint_permissions
              /\ crawl'.tasks[i].answer.perms = 404 => ErrorsAdded(crawl'.tasks[i]) = 0]_vars

\* The errors counter has grown by a resource whose request was answered 403.
C21_ForbiddenCounted ==
    /\ crawl.pc = "permissions"
    /\ crawl.errors > 0
    /\ \A i \in DOMAIN crawl.tasks :
          i <= crawl.batch_start =>
              crawl.tasks[i].answer \in {[drives |-> 403, perms |-> 0],
                                         [drives |-> 200, perms |-> 403],
                                         [drives |-> 200, perms |-> 200]}

(***************************************************************************)
(* C22: a failed token request (SpecCrawl)                                 *)
(***************************************************************************)

\* The call made in the step raises for its token request.
AuthFailure(calls) == crawl'.pc = "raised" /\ crawl'.raised \in calls

\* C22: when the token request fails, refresh_site_data, the structure pass
\* and the permission pass raise and leave the table as it was before the
\* call: no row is deleted, inserted or updated.
C22_AuthFailureSideEffectFree ==
    [][AuthFailure({"refresh_site_data", "collect_all_sharepoint_data_fast",
                    "collect_sharepoint_permissions"})
          => sharepoint_permissions' = sharepoint_permissions]_vars

\* The structure pass and the permission pass leave the table as it was when
\* their token request fails.
C22_PassesSideEffectFree ==
    [][AuthFailure({"collect_all_sharepoint_data_fast", "collect_sharepoint_permissions"})
          => sharepoint_permissions' = sharepoint_permissions]_vars

(***************************************************************************)
(* C23: the grant rows of a resource after its listing was read (SpecCrawl) *)
(***************************************************************************)

\* The identities a permission entry grants to: grantedTo, or every member
\* of grantedToIdentities.
GranteesOf(perm) ==
    IF "grantedTo" \in DOMAIN perm THEN {perm.grantedTo}
    ELSE IF "grantedToIdentities" \in DOMAIN perm
    THEN {perm.grantedToIdentities[j] : j \in DOMAIN perm.grantedToIdentities}
    ELSE {}

\* The id upstream gives an identity.
IdentityId(grantee) == LET kind == CHOOSE k \in DOMAIN grantee : TRUE IN grantee[kind].id

\* The ids of the grantees the listing of a drive item returns; First: of
\* the first grantee of each entry only.
ReturnedGrantees(k) ==
    UNION {{IdentityId(g) : g \in GranteesOf(graph.permissions[k][j])} :
              j \in DOMAIN graph.permissions[k]}

FirstGrantees(k) ==
    {IdentityId(GranteeOf(graph.permissions[k][j])) :
        j \in {x \in DOMAIN graph.permissions[k] : GranteeOf(graph.permissions[k][x]) # NoDict}}

\* The rows of drive item k other than its structure row hold each of the
\* given principals once and nothing else.
GrantRowsAre(k, principals) ==
    LET item     == graph.items[k]
        sentinel == SentinelId(IF item.folder THEN "folder" ELSE "file", item.id)
        grants   == RowsOf(sharepoint_permissions, item.id, sentinel, FALSE)
    IN /\ {r.principal_id : r \in grants} = principals
       /\ SumOver(grants, sharepoint_permissions) = Cardinality(principals)

\* The structure row of drive item k is there, once, with the identity the
\* structure pass gave it.
SentinelKept(k) ==
    LET item     == graph.items[k]
        type     == IF item.folder THEN "folder" ELSE "file"
        sentinel == RowsOf(sharepoint_permissions, item.id, SentinelId(type, item.id), TRUE)
    IN /\ SumOver(sentinel, sharepoint_permissions) = 1
       /\ \A r \in sentinel :
             [r EXCEPT !.has_broken_inheritance = FALSE]
                 = StructureRow(type, item, NoStr, graph.site.id)

C23_FirstGranteesReplaced ==
    \A k \in DOMAIN graph.items :
        graph.items[k].id \in crawl.replaced_now =>
            GrantRowsAre(k, FirstGrantees(k)) /\ SentinelKept(k)

(***************************************************************************)
(* C24: the batches of the permission pass (SpecBatch)                     *)
(***************************************************************************)

\* process_single_resource has been called for task i.
Touched(i) == crawl.tasks[i] # NewTask

\* process_resource_with_retry has returned or raised for task i: its
\* retries and the replacement of its rows are over.
Finished(i) == crawl.tasks[i].result.kind # "none"

\* The batch the i-th resource belongs to.
BatchOf(i) == (i - 1) \div batch_size

\* C24: at most 5 resources are being fetched at any moment, and no
\* resource of a later batch is fetched before every resource of the
\* batches before it has finished, its retries and the replacement of its
\* rows included.
C24_BatchesInTurn ==
    crawl.pc = "permissions" =>
        /\ Cardinality({i \in DOMAIN crawl.tasks : Touched(i) /\ ~Finished(i)}) <= batch_size
        /\ \A i, j \in DOMAIN crawl.tasks :
              BatchOf(i) < BatchOf(j) /\ Touched(j) => Finished(i)

\* The second batch is being fetched after a rate limit, when the first
\* batch has replaced the rows of a resource and has given up another after
\* its retries.
C24_Witness ==
    /\ crawl.pc = "permissions"
    /\ \E j \in DOMAIN crawl.tasks :
          BatchOf(j) = 1 /\ Touched(j) /\ ~Finished(j) /\ crawl.tasks[j].waits # <<>>
    /\ \E i \in DOMAIN crawl.tasks :
          /\ BatchOf(i) = 0
          /\ crawl.tasks[i].result.kind = "dict"
          /\ \E r \in DOMAIN sharepoint_permissions :
                r.resource_id = crawl.resources[i].resource_id /\ r.permission_type # "structure"
    /\ \E i \in DOMAIN crawl.tasks :
          BatchOf(i) = 0 /\ crawl.tasks[i].result = Raised("429 Rate Limited")

(***************************************************************************)
(* C26: the progress record of a permission pass (SpecBatch)               *)
(***************************************************************************)

\* The progress record of the pass exists.
Tracked == crawl.progress \notin {Untracked, NoDict}

\* What holds of the record in every state of its pass.
ProgressInRange ==
    Tracked =>
        /\ 0 <= crawl.progress.processed
        /\ crawl.progress.processed <= crawl.progress.total
        /\ crawl.pc = "permissions" => crawl.progress.status = "running"
        /\ crawl.pc = "permissions_done" =>
              /\ crawl.progress.status \in {"completed", "error"}
              /\ crawl.progress.status = "completed" =>
                    crawl.progress.processed = crawl.progress.total

\* What holds of every step that keeps the record.
ProgressMoves ==
    Tracked /\ Tracked' =>
        /\ crawl'.progress.total = crawl.progress.total
        /\ crawl'.progress.processed >= crawl.progress.processed
        /\ crawl'.progress.errors >= crawl.progress.errors
        /\ crawl'.progress.unique_found >= crawl.progress.unique_found
        /\ crawl.progress.status \in {"completed", "error"} =>
              crawl'.progress.status = crawl.progress.status

\* C26: in the progress record of a permission pass 0 <= processed <= total;
\* processed, errors and unique_found never decrease; status is running
\* from the start of the pass to its end, when it is completed with
\* processed = total, or error; and it never goes back to running.
C26_ProgressRecord == []ProgressInRange /\ [][ProgressMoves]_vars

\* The pass over more resources than a batch holds has ended: the record is
\* completed and has counted errors and resources with unique permissions.
C26_Witness ==
    /\ crawl.pc = "permissions_done"
    /\ Tracked
    /\ crawl.progress.status = "completed"
    /\ crawl.progress.processed = MaxResources
    /\ crawl.progress.errors > 1
    /\ crawl.progress.total > batch_size

\* The second batch is running and the record shows the first one.
C26_SecondBatchRunning ==
    /\ crawl.pc = "permissions"
    /\ Tracked
    /\ crawl.progress.processed = batch_size
    /\ crawl.progress.status = "running"

(***************************************************************************)
(* C25: the concurrency and the depth of the structure pass (SpecTree)     *)
(***************************************************************************)

\* The folders whose children are being requested.
Listing == {f \in DOMAIN crawl.tasks : crawl.tasks[f].phase = "listing"}

\* No folder below max_depth has its children listed: its coroutine
\* requests nothing, and none is created for what it holds.
DepthLimited ==
    \A f \in DOMAIN crawl.tasks :
        /\ crawl.tasks[f].depth > max_depth =>
              crawl.tasks[f].phase \in {"queued", "done"} /\ crawl.tasks[f].folder_tasks = <<>>
        /\ crawl.tasks[f].depth <= max_depth + 1

\* C25: during collect_drive_items_fast the children of at most 5 folders
\* are being fetched at the same time, at any depth of the recursion, and
\* no folder deeper than depth 10 has its children listed.
C25_BoundedStructurePass ==
    crawl.pc = "tree" => Cardinality(Listing) <= folder_batch_size /\ DepthLimited

\* Of the folders one folder holds, the children of at most 5 are being
\* fetched at the same time, and no folder deeper than depth 10 has its
\* children listed.
C25_BoundedPerFolder ==
    crawl.pc = "tree" =>
        /\ \A f \in DOMAIN crawl.tasks :
              Cardinality({c \in Listing :
                              \E n \in DOMAIN crawl.tasks[f].folder_tasks :
                                  crawl.tasks[f].folder_tasks[n] = c}) <= folder_batch_size
        /\ DepthLimited

\* The folder at depth 11 has been reached and left unlisted.
C25_DeepFolderSkipped ==
    /\ crawl.pc = "tree"
    /\ \E f \in DOMAIN crawl.tasks :
          crawl.tasks[f].depth = max_depth + 1 /\ crawl.tasks[f].phase = "done"

====
